---------------------------- MODULE Spec2Model ----------------------------
(***************************************************************************)
(* A model of the operational helper scripts of the IAM demo repository:   *)
(*   scripts/normalize_azure_storage_secret.py  (parse_credential)         *)
(*   scripts/configure_demo_hosts.py            (ingress discovery, host   *)
(*                                               rewriting, stale scan)    *)
(*                                                                         *)
(* Text.  A Python str is modelled as a sequence of tokens.  A token is    *)
(* either one structural character (";", "=", ":", a quote, a brace, a     *)
(* blank, a line break, ...) or an atom: a maximal run of characters that  *)
(* the code never looks into other than through lower(), the regular       *)
(* expression character classes and literal comparison.  Concatenation of  *)
(* strings is concatenation of sequences; the atoms used by the inputs     *)
(* are chosen so that a string has one reading only, hence equality of     *)
(* sequences is equality of the strings.  Every string operation of the    *)
(* code (strip, split, replace, re.match, re.search, startswith, lower,    *)
(* urlparse, json.loads) is defined below by what it does on that text.    *)
(***************************************************************************)
EXTENDS Naturals, Integers, Sequences, FiniteSets, TLC

----------------------------------------------------------------------------
(* Bounds of the model.                                                    *)

\* Largest number of key=value segments of a generated connection string.
MaxSegments == 2

\* Deepest nesting of a generated JSON wrapper.
MaxDepth == 2

----------------------------------------------------------------------------
(* Characters and atoms.                                                   *)

\* Python's None.  A one-token text no input contains.
None == <<"<None>">>

\* Characters str.strip() and the regex class \s remove.
Whitespace == {" ", "\t", "\n", "\r"}

\* Tokens whose last character is not a word character (regex \w): a \b
\* word boundary lies between such a token and a following atom.
Punctuation ==
    Whitespace \cup {";", "=", ":", "\"", "'", "{", "}", "[", "]", ",",
                     "?", "&", "#", "/", ".", "+", "-", "@"}

\* str.lower() on one token: the mixed-case atoms and their lower-case form.
LowerTable ==
    [t \in {"UseDevelopmentStorage", "AccountName", "AccountKey",
            "SharedAccessSignature", "DefaultEndpointsProtocol",
            "BlobEndpoint", "QueueEndpoint", "TableEndpoint", "FileEndpoint",
            "EndpointSuffix", "True", "trueX", "Sig", "Sv", "Foo", "HTTPS",
            "Demo"} |->
        CASE t = "UseDevelopmentStorage" -> "usedevelopmentstorage"
          [] t = "AccountName" -> "accountname"
          [] t = "AccountKey" -> "accountkey"
          [] t = "SharedAccessSignature" -> "sharedaccesssignature"
          [] t = "DefaultEndpointsProtocol" -> "defaultendpointsprotocol"
          [] t = "BlobEndpoint" -> "blobendpoint"
          [] t = "QueueEndpoint" -> "queueendpoint"
          [] t = "TableEndpoint" -> "tableendpoint"
          [] t = "FileEndpoint" -> "fileendpoint"
          [] t = "EndpointSuffix" -> "endpointsuffix"
          [] t = "True" -> "true"
          [] t = "trueX" -> "truex"
          [] t = "Sig" -> "sig"
          [] t = "Sv" -> "sv"
          [] t = "Foo" -> "foo"
          [] t = "HTTPS" -> "https"
          [] t = "Demo" -> "demo"]

LowerTok(t) == IF t \in DOMAIN LowerTable THEN LowerTable[t] ELSE t

\* str.lower()
lower(s) == [i \in 1..Len(s) |-> LowerTok(s[i])]

----------------------------------------------------------------------------
(* String operations of the Python library, on token sequences.            *)

Drop(s, n) == SubSeq(s, n + 1, Len(s))

Take(s, n) == SubSeq(s, 1, n)

\* A local assignment: F applied to the value of x.
With(x, F(_)) == CHOOSE r \in {F(v) : v \in {x}} : TRUE

\* Index of the first token of s that is in set, 0 when there is none.
FirstIn(s, set) ==
    LET hits == {i \in 1..Len(s) : s[i] \in set}
    IN  IF hits = {} THEN 0 ELSE CHOOSE i \in hits : \A j \in hits : i <= j

\* Index of the first token of s that is not in set, 0 when there is none.
FirstNotIn(s, set) ==
    LET hits == {i \in 1..Len(s) : s[i] \notin set}
    IN  IF hits = {} THEN 0 ELSE CHOOSE i \in hits : \A j \in hits : i <= j

\* Index of the last token of s that is not in set, 0 when there is none.
LastNotIn(s, set) ==
    LET hits == {i \in 1..Len(s) : s[i] \notin set}
    IN  IF hits = {} THEN 0 ELSE CHOOSE i \in hits : \A j \in hits : i >= j

\* str.lstrip(chars)
lstrip(s, chars) ==
    LET i == FirstNotIn(s, chars) IN IF i = 0 THEN <<>> ELSE Drop(s, i - 1)

\* str.rstrip(chars)
rstrip(s, chars) == Take(s, LastNotIn(s, chars))

\* str.strip(chars); strip(s, Whitespace) is str.strip()
strip(s, chars) == rstrip(lstrip(s, chars), chars)

\* "c" in s, for a one-character c
Contains(s, c) == \E i \in 1..Len(s) : s[i] = c

\* s.startswith(p)
startswith(s, p) == Len(s) >= Len(p) /\ Take(s, Len(p)) = p

\* s.endswith(p)
endswith(s, p) == Len(s) >= Len(p) /\ Drop(s, Len(s) - Len(p)) = p

\* sep.join(list)
RECURSIVE join(_, _)
join(sep, list) ==
    IF list = <<>> THEN <<>>
    ELSE IF Len(list) = 1 THEN list[1]
    ELSE list[1] \o sep \o join(sep, Tail(list))

\* re.split(r"[<seps>]+", s): the pieces of s between the maximal runs of
\* separator characters; a leading or trailing run leaves an empty piece.
RECURSIVE re_split(_, _)
re_split(s, seps) ==
    LET i == FirstIn(s, seps)
    IN  IF i = 0 THEN <<s>>
        ELSE LET rest == Drop(s, i)
                 j == FirstNotIn(rest, seps)
             IN  <<Take(s, i - 1)>> \o
                 re_split(IF j = 0 THEN <<>> ELSE Drop(rest, j - 1), seps)

\* value.replace("\r\n", "\n").replace("\r", "\n")
RECURSIVE replace_cr(_)
replace_cr(s) ==
    IF s = <<>> THEN <<>>
    ELSE IF s[1] = "\r" /\ Len(s) >= 2 /\ s[2] = "\n"
         THEN <<"\n">> \o replace_cr(Drop(s, 2))
    ELSE IF s[1] = "\r" THEN <<"\n">> \o replace_cr(Tail(s))
    ELSE <<s[1]>> \o replace_cr(Tail(s))

\* The elements of list that satisfy keep, in order.
SelectNonEmpty(list) == SelectSeq(list, LAMBDA x : x # <<>>)

\* [f(x) for x in list]
StripEach(list) == [i \in 1..Len(list) |-> strip(list[i], Whitespace)]


----------------------------------------------------------------------------
(* normalize_azure_storage_secret.py: parse_credential                     *)

\* The result of parse_credential: an AzureCredential, or the ValueError it
\* raised (error # None; the four fields are then None).
AzureCredential(account, connection, key, sas) ==
    [error |-> None, storage_account |-> account,
     connection_string |-> connection, account_key |-> key, sas_token |-> sas]

ValueError(message) ==
    [error |-> message, storage_account |-> None, connection_string |-> None,
     account_key |-> None, sas_token |-> None]

\* Python truthiness of an Optional[str]
Truthy(x) == x # None /\ x # <<>>

\* The key names of the re.search of the connection-string trigger.
RecognizedKeys ==
    {"accountname", "accountkey", "sharedaccesssignature",
     "defaultendpointsprotocol", "blobendpoint", "queueendpoint",
     "tableendpoint", "fileendpoint", "endpointsuffix"}

\* re.search(r"\b(accountname|...|endpointsuffix)=", s, flags=re.IGNORECASE)
SearchRecognizedKey(s) ==
    \E i \in 1..(Len(s) - 1) :
        /\ LowerTok(s[i]) \in RecognizedKeys
        /\ s[i + 1] = "="
        /\ (i = 1 \/ s[i - 1] \in Punctuation)

\* normalized_value.lower().startswith("usedevelopmentstorage=true")
IsDevelopmentStorage(s) ==
    /\ Len(s) >= 3
    /\ LowerTok(s[1]) = "usedevelopmentstorage"
    /\ s[2] = "="
    /\ LowerTok(s[3]) \in {"true", "truex"}

\* The trigger of the connection-string branch.
IsConnectionString(s) ==
    /\ Contains(s, "=")
    /\ (Contains(s, ";") \/ Contains(s, "\n") \/ SearchRecognizedKey(s))

\* re.match(r"\s*([^:=]+)\s*[:=]\s*(.*)\s*$", segment) and the two strips:
\* the text before the first ':' or '=' is the key, the text after it the
\* value; no match when the segment has no ':' or '=' or starts with one.
segment_match(segment) ==
    With(FirstIn(segment, {":", "="}), LAMBDA i :
        IF i <= 1 THEN [matched |-> FALSE, key |-> <<>>, val |-> <<>>]
        ELSE [matched |-> TRUE,
              key |-> strip(Take(segment, i - 1), Whitespace),
              val |-> strip(Drop(segment, i), Whitespace)])

\* The (key, val) pairs the loop stores into parts, in segment order.
RECURSIVE parts_of(_)
parts_of(segments) ==
    IF segments = <<>> THEN <<>>
    ELSE With(segment_match(segments[1]), LAMBDA m :
             (IF segments[1] # <<>> /\ m.matched /\ m.key # <<>>
              THEN <<[key |-> m.key, val |-> m.val]>> ELSE <<>>)
             \o parts_of(Tail(segments)))

\* name in parts
parts_has(parts, name) ==
    \E i \in 1..Len(parts) : lower(parts[i].key) = <<name>>

\* parts[name]: the last segment stored under the lower-cased key wins.
parts_get(parts, name) ==
    LET hits == {i \in 1..Len(parts) : lower(parts[i].key) = <<name>>}
    IN  parts[CHOOSE i \in hits : \A j \in hits : i >= j]

\* parts.get(name, (_, default))[1]
parts_value(parts, name, default) ==
    IF parts_has(parts, name) THEN parts_get(parts, name).val ELSE default

\* f"{key}={val}"
Pair(key, val) == key \o <<"=">> \o val

\* f"{original_key}={val}" for the entry of parts stored under name
Original(parts, name) ==
    With(parts_get(parts, name), LAMBDA entry : Pair(entry.key, entry.val))

\* The endpoints appended after the suffix, in the order of the tuple.
RECURSIVE other_endpoints(_, _)
other_endpoints(parts, names) ==
    IF names = <<>> THEN <<>>
    ELSE (IF parts_has(parts, names[1])
          THEN <<Original(parts, names[1])>> ELSE <<>>)
         \o other_endpoints(parts, Tail(names))

\* A protocol that is defaulted only when the input names no blob endpoint.
protocol_unless_endpoint(parts) ==
    IF parts_has(parts, "defaultendpointsprotocol")
    THEN <<Original(parts, "defaultendpointsprotocol")>>
    ELSE IF ~parts_has(parts, "blobendpoint")
    THEN << <<"DefaultEndpointsProtocol", "=", "https">> >>
    ELSE <<>>

\* Lines 93-97: the protocol of the input, else the default.
protocol_segment(parts) ==
    IF parts_has(parts, "defaultendpointsprotocol")
    THEN <<Original(parts, "defaultendpointsprotocol")>>
    ELSE << <<"DefaultEndpointsProtocol", "=", "https">> >>

\* Lines 112-116: the suffix of the input, else the default unless the
\* input names a blob endpoint.
suffix_segment(parts) ==
    IF parts_has(parts, "endpointsuffix")
    THEN <<Original(parts, "endpointsuffix")>>
    ELSE IF ~parts_has(parts, "blobendpoint")
    THEN << <<"EndpointSuffix", "=", "core.windows.net">> >>
    ELSE <<>>

\* The list "connection" of the connection-string branch.
connection_segments(parts, account, account_key, sas) ==
    protocol_segment(parts)
    \o (IF Truthy(account) THEN <<Pair(<<"AccountName">>, account)>> ELSE <<>>)
    \o (IF parts_has(parts, "blobendpoint")
        THEN <<Original(parts, "blobendpoint")>> ELSE <<>>)
    \o (IF Truthy(account_key)
        THEN <<Pair(<<"AccountKey">>, account_key)>> ELSE <<>>)
    \o (IF Truthy(sas)
        THEN <<Pair(<<"SharedAccessSignature">>, sas)>> ELSE <<>>)
    \o suffix_segment(parts)
    \o other_endpoints(parts, <<"queueendpoint", "tableendpoint",
                                "fileendpoint">>)

\* The development-storage branch.
parse_development_storage(normalized_value, storage_account) ==
    AzureCredential(
        storage_account,
        join(<<";">>,
             SelectNonEmpty(StripEach(re_split(normalized_value,
                                               {";", "\n"})))),
        None, None)

\* The credential built from parts and the three values read from it.
connection_credential(parts, account, account_key, sas, storage_account) ==
    AzureCredential(
        IF Truthy(account) THEN account ELSE storage_account,
        join(<<";">>, connection_segments(parts, account, account_key, sas)),
        account_key, sas)

\* The delimited key=value connection-string branch.
parse_connection_string(normalized_value, storage_account) ==
    With(parts_of(re_split(normalized_value, {";", "\n"})), LAMBDA parts :
        connection_credential(
            parts,
            parts_value(parts, "accountname", storage_account),
            parts_value(parts, "accountkey", None),
            parts_value(parts, "sharedaccesssignature", None),
            storage_account))

----------------------------------------------------------------------------
(* urllib.parse.urlparse, as far as parse_credential reads its result.     *)
(* A netloc holding '[' or ']' (an IPv6 literal) is outside the inputs     *)
(* modelled.                                                               *)

\* Atoms that hold a '.' inside.
DottedAtoms == {"core.windows.net", ".blob.core.windows.net"}

\* Atoms of digits only.
Numerals == {"7", "2021"}

\* Atoms made of letters and digits only (regex class [A-Za-z0-9]).
IsAlnum(t) == t \notin Punctuation /\ t \notin DottedAtoms /\ t # "_"

\* The for/else over url[:i]: every character is a scheme character and the
\* first one is a letter.
IsScheme(p) ==
    /\ p # <<>>
    /\ IsAlnum(p[1]) /\ p[1] \notin Numerals
    /\ \A i \in 1..Len(p) :
           IsAlnum(p[i]) \/ p[i] \in {"+", "-", "."} \/ p[i] \in DottedAtoms

\* s.partition(c): <<before, found, after>>
partition(s, c) ==
    LET i == FirstIn(s, {c})
    IN  IF i = 0 THEN [head |-> s, found |-> FALSE, tail |-> <<>>]
        ELSE [head |-> Take(s, i - 1), found |-> TRUE, tail |-> Drop(s, i)]

\* s.rpartition("@")[2]
AfterLast(s, c) ==
    LET hits == {i \in 1..Len(s) : s[i] = c}
    IN  IF hits = {} THEN s
        ELSE Drop(s, CHOOSE i \in hits : \A j \in hits : i >= j)

\* The rest of urlsplit once the netloc is cut off: fragment, query, host.
url_split_path(scheme, netloc, url) ==
    With(partition(partition(url, "#").head, "?"), LAMBDA q :
        [scheme |-> scheme,
         hostname |-> lower(partition(AfterLast(netloc, "@"), ":").head),
         path |-> q.head,
         query |-> q.tail])

\* urlsplit after the scheme: the netloc runs from "//" to the first of /?#
url_split_netloc(scheme, url) ==
    IF ~startswith(url, <<"/", "/">>) THEN url_split_path(scheme, <<>>, url)
    ELSE With(FirstIn(Drop(url, 2), {"/", "?", "#"}), LAMBDA j :
             IF j = 0 THEN url_split_path(scheme, Drop(url, 2), <<>>)
             ELSE url_split_path(scheme, SubSeq(url, 3, j + 1),
                                 Drop(url, j + 1)))

\* urlsplit on the cleaned text: the scheme is the text before the first ':'
url_split_scheme(url) ==
    With(FirstIn(url, {":"}), LAMBDA i :
        IF i > 1 /\ IsScheme(Take(url, i - 1))
        THEN url_split_netloc(lower(Take(url, i - 1)), Drop(url, i))
        ELSE url_split_netloc(<<>>, url))

\* urlparse(value): scheme, hostname (<<>> for None), path and query
urlparse(value) ==
    url_split_scheme(SelectSeq(lstrip(value, Whitespace),
                               LAMBDA t : t \notin {"\t", "\r", "\n"}))

\* "sig=" in s.lower() and "sv=" in s.lower()
HasSigAndSv(s) ==
    /\ \E i \in 1..(Len(s) - 1) : LowerTok(s[i]) = "sig" /\ s[i + 1] = "="
    /\ \E i \in 1..(Len(s) - 1) : LowerTok(s[i]) = "sv" /\ s[i + 1] = "="

\* re.match(r"^(?P<name>[^.]+)\.blob\.core\.windows\.net$", hostname)
BlobHostMatch(hostname) ==
    /\ Len(hostname) >= 2
    /\ hostname[Len(hostname)] = ".blob.core.windows.net"
    /\ \A i \in 1..(Len(hostname) - 1) :
           hostname[i] # "." /\ hostname[i] \notin DottedAtoms

\* Lines 131-136: the parsed URL with the query a '?' left in the path.
parsed_sas_url(value) ==
    With(urlparse(value), LAMBDA parsed_url :
        IF parsed_url.query = <<>> /\ parsed_url.path # <<>>
           /\ Contains(parsed_url.path, "?")
        THEN [parsed_url EXCEPT !.path = partition(parsed_url.path, "?").head,
                                !.query = partition(parsed_url.path, "?").tail]
        ELSE parsed_url)

\* The trigger of the SAS-URL branch: a scheme, and a query with sig= and sv=
IsSasUrl(parsed_url) ==
    /\ parsed_url.scheme # <<>>
    /\ parsed_url.query # <<>>
    /\ HasSigAndSv(parsed_url.query)

\* An account that is the fallback account whatever the host.
fallback_account(hostname, storage_account) == storage_account

\* account: the <name> of a <name>.blob.core.windows.net host, else the
\* fallback account.
sas_url_account(hostname, storage_account) ==
    IF hostname # <<>> /\ BlobHostMatch(hostname)
    THEN Take(hostname, Len(hostname) - 1)
    ELSE storage_account

sas_url_endpoint(parsed_url, account) ==
    IF parsed_url.hostname # <<>>
    THEN parsed_url.scheme \o <<":", "/", "/">> \o parsed_url.hostname
         \o <<"/">>
    ELSE <<"https", ":", "/", "/">> \o account
         \o <<".blob.core.windows.net", "/">>

\* The SAS-URL branch.
parse_sas_url(parsed_url, storage_account) ==
    With(sas_url_account(parsed_url.hostname, storage_account),
         LAMBDA account :
        AzureCredential(
            account,
            <<"DefaultEndpointsProtocol", "=", "https", ";">>
            \o Pair(<<"AccountName">>, account) \o <<";">>
            \o Pair(<<"BlobEndpoint">>, sas_url_endpoint(parsed_url, account))
            \o <<";">>
            \o Pair(<<"SharedAccessSignature">>, parsed_url.query),
            None, parsed_url.query))

\* The bare SAS token branch, on token = value.lstrip("?")
parse_sas_token(token, storage_account) ==
    AzureCredential(
        storage_account,
        <<"DefaultEndpointsProtocol", "=", "https", ";">>
        \o Pair(<<"AccountName">>, storage_account) \o <<";">>
        \o Pair(<<"BlobEndpoint">>,
                <<"https", ":", "/", "/">> \o storage_account
                \o <<".blob.core.windows.net", "/">>) \o <<";">>
        \o Pair(<<"SharedAccessSignature">>, token),
        None, token)

\* The {15,} of the account-key pattern.
MinKeyLength == 15

\* Number of characters of a text.
RECURSIVE CharLen(_)
CharLen(s) == IF s = <<>> THEN 0 ELSE Len(s[1]) + CharLen(Tail(s))

\* A test of the account key that takes no '=' padding.
IsUnpaddedBase64(base64_like) ==
    /\ base64_like # <<>>
    /\ \A i \in 1..Len(base64_like) :
           \/ IsAlnum(base64_like[i])
           \/ base64_like[i] \in {"+", "/", "_", "-"}
    /\ CharLen(base64_like) >= MinKeyLength

\* The test of the bare account key branch on base64_like.
IsBase64Like(base64_like) ==
    /\ base64_like # <<>>
    /\ \A i \in 1..Len(base64_like) :
           base64_like[i] \notin {";", "&", "?", "{", "}"} \cup Whitespace
    /\ ~Contains(rstrip(base64_like, {"="}), "=")
    /\ \A i \in 1..Len(base64_like) :
           \/ IsAlnum(base64_like[i])
           \/ base64_like[i] \in {"+", "/", "=", "_", "-"}
    /\ CharLen(base64_like) >= MinKeyLength

parse_account_key(value, storage_account) ==
    AzureCredential(
        storage_account,
        <<"DefaultEndpointsProtocol", "=", "https", ";">>
        \o Pair(<<"AccountName">>, storage_account) \o <<";">>
        \o Pair(<<"AccountKey">>, value) \o <<";">>
        \o <<"EndpointSuffix", "=", "core.windows.net">>,
        value, None)

----------------------------------------------------------------------------
(* The multi-line key: value block.                                        *)

\* str.splitlines()
RECURSIVE splitlines(_)
splitlines(s) ==
    LET i == FirstIn(s, {"\n"})
    IN  IF i = 0 THEN (IF s = <<>> THEN <<>> ELSE <<s>>)
        ELSE <<Take(s, i - 1)>> \o splitlines(Drop(s, i))

\* cleaned_val: the value less its inline comment and its quotes
clean_value(val) ==
    strip(strip(strip(partition(strip(val, Whitespace), "#").head,
                      Whitespace), {"\""}), {"'"})

\* The body of the loop over the lines: the key=value segment of a line,
\* <<>> for a line that is skipped.
colon_segment(line) ==
    With(partition(strip(line, Whitespace), ":"), LAMBDA kv :
        IF ~kv.found THEN <<>>
        ELSE <<strip(kv.head, Whitespace) \o <<"=">> \o clean_value(kv.tail)>>)

RECURSIVE colon_segments(_)
colon_segments(lines) ==
    IF lines = <<>> THEN <<>>
    ELSE colon_segment(lines[1]) \o colon_segments(Tail(lines))

\* The trigger of the multi-line branch.
IsMultiLine(normalized_value) ==
    /\ Contains(normalized_value, "\n")
    /\ LET stripped == lstrip(normalized_value, Whitespace)
       IN  ~(stripped # <<>> /\ stripped[1] \in {"{", "["})

----------------------------------------------------------------------------
(* json.loads, on the token text.  A decoded value is a record with a      *)
(* field t: "str" (v: the text), "dict" (items: the (k, v) entries in      *)
(* insertion order), "list" (items), "scalar" (numbers, true, false) or    *)
(* "null" (None).  Strings hold no escapes.                                *)

JsonWhitespace == {" ", "\t", "\n", "\r"}

JsonLiterals == {"true", "false", "null"} \cup Numerals

JsonFail == [ok |-> FALSE, pos |-> 0, val |-> [t |-> "null"]]

\* First position at or after i that holds no JSON whitespace.
skip_ws(s, i) ==
    LET hits == {j \in i..Len(s) : s[j] \notin JsonWhitespace}
    IN  IF hits = {} THEN Len(s) + 1
        ELSE CHOOSE j \in hits : \A k \in hits : j <= k

\* dict[k] = v: a repeated key keeps its place and takes the later value.
dict_set(items, k, v) ==
    IF \E i \in 1..Len(items) : items[i].k = k
    THEN [i \in 1..Len(items) |->
             IF items[i].k = k THEN [k |-> k, v |-> v] ELSE items[i]]
    ELSE Append(items, [k |-> k, v |-> v])

\* A string literal from the quote at i to the next quote, at j.
json_string_to(s, i, j) ==
    IF j = 0 THEN JsonFail
    ELSE IF \E k \in (i + 1)..(i + j - 1) : s[k] \in {"\n", "\r", "\t"}
    THEN JsonFail
    ELSE [ok |-> TRUE, pos |-> i + j + 1,
          val |-> [t |-> "str", v |-> SubSeq(s, i + 1, i + j - 1)]]

json_string(s, i) == json_string_to(s, i, FirstIn(Drop(s, i), {"\""}))

RECURSIVE json_value(_, _)
RECURSIVE json_members(_, _, _)
RECURSIVE json_elements(_, _, _)

\* After a member's value: '}' ends the object, ',' leads to the next key.
json_member_end(s, items, key, val, e) ==
    IF ~val.ok \/ e > Len(s) THEN JsonFail
    ELSE IF s[e] = "}"
    THEN [ok |-> TRUE, pos |-> e + 1,
          val |-> [t |-> "dict", items |-> dict_set(items, key, val.val)]]
    ELSE IF s[e] = ","
    THEN json_members(s, skip_ws(s, e + 1), dict_set(items, key, val.val))
    ELSE JsonFail

\* The members of an object from position i (at a key), items so far.
json_members(s, i, items) ==
    IF i > Len(s) \/ s[i] # "\"" THEN JsonFail
    ELSE With(json_string(s, i), LAMBDA key :
         IF ~key.ok THEN JsonFail
         ELSE With(skip_ws(s, key.pos), LAMBDA c :
              IF c > Len(s) \/ s[c] # ":" THEN JsonFail
              ELSE With(json_value(s, skip_ws(s, c + 1)), LAMBDA val :
                       json_member_end(s, items, key.val.v, val,
                                       skip_ws(s, val.pos)))))

\* After an element: ']' ends the array, ',' leads to the next element.
json_element_end(s, items, val, e) ==
    IF ~val.ok \/ e > Len(s) THEN JsonFail
    ELSE IF s[e] = "]"
    THEN [ok |-> TRUE, pos |-> e + 1,
          val |-> [t |-> "list", items |-> Append(items, val.val)]]
    ELSE IF s[e] = ","
    THEN json_elements(s, skip_ws(s, e + 1), Append(items, val.val))
    ELSE JsonFail

\* The elements of an array from position i (at a value), items so far.
json_elements(s, i, items) ==
    With(json_value(s, i), LAMBDA val :
        json_element_end(s, items, val, skip_ws(s, val.pos)))

\* The value after '{' or '[': empty when the closing character follows.
json_container(s, j, close, kind) ==
    IF j <= Len(s) /\ s[j] = close
    THEN [ok |-> TRUE, pos |-> j + 1, val |-> [t |-> kind, items |-> <<>>]]
    ELSE IF kind = "dict" THEN json_members(s, j, <<>>)
    ELSE json_elements(s, j, <<>>)

json_value(s, i) ==
    IF i > Len(s) THEN JsonFail
    ELSE IF s[i] = "\"" THEN json_string(s, i)
    ELSE IF s[i] = "{" THEN json_container(s, skip_ws(s, i + 1), "}", "dict")
    ELSE IF s[i] = "[" THEN json_container(s, skip_ws(s, i + 1), "]", "list")
    ELSE IF s[i] \in JsonLiterals
    THEN [ok |-> TRUE, pos |-> i + 1,
          val |-> [t |-> IF s[i] = "null" THEN "null" ELSE "scalar"]]
    ELSE JsonFail

\* json.loads(value); decoded is "null" as well when JSONDecodeError is raised.
json_loads(value) ==
    With(json_value(value, skip_ws(value, 1)), LAMBDA r :
        IF r.ok /\ skip_ws(value, r.pos) > Len(value) THEN r.val
        ELSE [t |-> "null"])

\* One turn of the loop of iter_string_candidates on the popped value.
RECURSIVE iter_string_candidates(_, _)
iter_step(current, rest, strings) ==
    IF current.t = "str"
    THEN With(strip(current.v, Whitespace), LAMBDA normalized :
             iter_string_candidates(
                 rest,
                 IF normalized # <<>> THEN Append(strings, normalized)
                 ELSE strings))
    ELSE IF current.t = "dict"
    THEN iter_string_candidates(
             rest \o [i \in 1..Len(current.items) |-> current.items[i].v],
             strings)
    ELSE IF current.t = "list"
    THEN iter_string_candidates(rest \o current.items, strings)
    ELSE iter_string_candidates(rest, strings)

\* iter_string_candidates: the loop over the stack.
iter_string_candidates(stack, strings) ==
    IF stack = <<>> THEN strings
    ELSE iter_step(stack[Len(stack)], Take(stack, Len(stack) - 1), strings)

----------------------------------------------------------------------------
(* The error of parse_credential: _redacted_preview, _heuristic_summary    *)
(* and the message of lines 241-247.  The preview and the length count     *)
(* characters, so the tokens are taken apart into their characters.        *)

\* The characters of a text, one token each.
RECURSIVE Chars(_)
Chars(s) ==
    IF s = <<>> THEN <<>>
    ELSE [i \in 1..Len(s[1]) |-> SubSeq(s[1], i, i)] \o Chars(Tail(s))

\* re.sub(r"\s+", " ", chars): every run of whitespace becomes one blank.
RECURSIVE collapse_whitespace(_)
collapse_whitespace(chars) ==
    IF chars = <<>> THEN <<>>
    ELSE IF chars[1] \in Whitespace
    THEN With(FirstNotIn(chars, Whitespace), LAMBDA j :
             <<" ">> \o (IF j = 0 THEN <<>>
                         ELSE collapse_whitespace(Drop(chars, j - 1))))
    ELSE <<chars[1]>> \o collapse_whitespace(Tail(chars))

\* The character between the two ends of a preview (U+2026 in the source).
Ellipsis == "<...>"

\* "*" * n
Asterisks(n) == [i \in 1..n |-> "*"]

\* The three returns of _redacted_preview, on compact.
preview_of(compact) ==
    IF compact = <<>> THEN <<"<empty>">>
    ELSE IF Len(compact) <= 6 THEN Asterisks(Len(compact))
    ELSE Take(compact, 4) \o <<Ellipsis>> \o Drop(compact, Len(compact) - 2)

\* _redacted_preview(value), as characters
_redacted_preview(value) ==
    preview_of(collapse_whitespace(strip(Chars(value), Whitespace)))

\* re.match(r"^[a-zA-Z][a-zA-Z0-9+.-]*://", value)
LooksUrl(value) ==
    With(FirstIn(value, {":"}), LAMBDA i :
        /\ i > 1
        /\ IsScheme(Take(value, i - 1))
        /\ Len(value) >= i + 2
        /\ value[i + 1] = "/"
        /\ value[i + 2] = "/")

\* value.lstrip().startswith(("{", "["))
LooksJson(value) ==
    With(lstrip(value, Whitespace), LAMBDA stripped :
        stripped # <<>> /\ stripped[1] \in {"{", "["})

\* f"{key}={'yes' if val else 'no'}"
YesNo(key, val) == key \o "=" \o (IF val THEN "yes" ELSE "no")

\* _heuristic_summary(value): the seven entries in the order of the dict,
\* joined by ", ".
_heuristic_summary(value) ==
    join(<<", ">>,
         << <<YesNo("has_equals", Contains(value, "="))>>,
            <<YesNo("has_newlines", Contains(value, "\n"))>>,
            <<YesNo("has_question", Contains(value, "?"))>>,
            <<YesNo("looks_json", LooksJson(value))>>,
            <<YesNo("looks_url", LooksUrl(value))>>,
            <<YesNo("has_accountname",
                    \E i \in 1..Len(value) :
                        LowerTok(value[i]) = "accountname")>>,
            <<YesNo("has_sig",
                    \E i \in 1..(Len(value) - 1) :
                        LowerTok(value[i]) = "sig" /\ value[i + 1] = "=")>> >>)

\* hashlib.sha256(text.encode("utf-8")).hexdigest()[:12], as a term that
\* names the digest: two texts have the same term exactly when they are
\* equal (the inputs hold no two texts whose digests collide).
fingerprint_of(text) == <<"sha256[:12](">> \o text \o <<")">>

\* The message of the ValueError of lines 244-247.
undetected_message(normalized_value) ==
    <<"Unable to detect credential type. Provide an account key, SAS token, or connection string. ",
      "(len=", ToString(CharLen(normalized_value)), ", fingerprint=">>
    \o fingerprint_of(normalized_value)
    \o <<", preview=">> \o _redacted_preview(normalized_value)
    \o <<", ">> \o _heuristic_summary(normalized_value)
    \o <<")">>

----------------------------------------------------------------------------
(* parse_credential                                                        *)

\* value[1:-1].strip() when value is enclosed in a pair of quotes
strip_quotes(value) ==
    IF \/ (startswith(value, <<"\"">>) /\ endswith(value, <<"\"">>))
       \/ (startswith(value, <<"'">>) /\ endswith(value, <<"'">>))
    THEN strip(SubSeq(value, 2, Len(value) - 1), Whitespace)
    ELSE value

\* Lines 48-52: value = raw.strip(), less one pair of enclosing quotes
unquote(raw) == strip_quotes(strip(raw, Whitespace))

RECURSIVE parse_credential(_, _)
RECURSIVE try_candidates(_, _, _, _, _)

\* A loop over the candidates that passes over none.
never_skipped(candidate, value, seen) == FALSE

\* if candidate == value or candidate in seen: continue
skip_candidate(candidate, value, seen) ==
    candidate = value \/ candidate \in seen

\* The body of the loop over the JSON candidates, after the skip test.
try_candidate(r, candidates, seen, value, normalized_value, storage_account) ==
    IF r.error = None THEN r
    ELSE try_candidates(Tail(candidates), seen \cup {candidates[1]}, value,
                        normalized_value, storage_account)

\* The loop over the JSON candidates: the first candidate that parses wins;
\* the ValueError of lines 241-247 when none does.
try_candidates(candidates, seen, value, normalized_value, storage_account) ==
    IF candidates = <<>>
    THEN ValueError(undetected_message(normalized_value))
    ELSE IF skip_candidate(candidates[1], value, seen)
    THEN try_candidates(Tail(candidates), seen, value, normalized_value,
                        storage_account)
    ELSE With(parse_credential(candidates[1], storage_account), LAMBDA r :
             try_candidate(r, candidates, seen, value, normalized_value,
                           storage_account))

\* Lines 210-247: the JSON wrapper, then the error.
parse_json(value, normalized_value, storage_account) ==
    With(json_loads(value), LAMBDA decoded :
        IF decoded.t # "null"
        THEN try_candidates(iter_string_candidates(<<decoded>>, <<>>), {},
                            value, normalized_value, storage_account)
        ELSE ValueError(undetected_message(normalized_value)))

\* Lines 204-208: the recursive call on the joined segments; its ValueError
\* is passed over.
parse_segments(segments, value, normalized_value, storage_account) ==
    IF segments = <<>> THEN parse_json(value, normalized_value, storage_account)
    ELSE With(parse_credential(join(<<";">>, segments), storage_account),
              LAMBDA r :
             IF r.error = None THEN r
             ELSE parse_json(value, normalized_value, storage_account))

\* Lines 193-247: the multi-line block, then the JSON wrapper.
parse_wrapped(value, normalized_value, storage_account) ==
    IF IsMultiLine(normalized_value)
    THEN parse_segments(colon_segments(splitlines(normalized_value)), value,
                        normalized_value, storage_account)
    ELSE parse_json(value, normalized_value, storage_account)

\* Lines 131-247: the branches that follow the connection string.
parse_other(value, normalized_value, parsed_url, storage_account) ==
    IF IsSasUrl(parsed_url) THEN parse_sas_url(parsed_url, storage_account)
    ELSE IF HasSigAndSv(lstrip(value, {"?"}))
    THEN parse_sas_token(lstrip(value, {"?"}), storage_account)
    ELSE IF IsBase64Like(strip(normalized_value, Whitespace))
    THEN parse_account_key(value, storage_account)
    ELSE parse_wrapped(value, normalized_value, storage_account)

\* An order of the branches in which the bare SAS token is tested before
\* the connection string.
parse_sas_token_first(value, normalized_value, storage_account) ==
    IF value = <<>> THEN ValueError(<<"Credential must not be empty">>)
    ELSE IF IsDevelopmentStorage(normalized_value)
    THEN parse_development_storage(normalized_value, storage_account)
    ELSE IF HasSigAndSv(lstrip(value, {"?"}))
    THEN parse_sas_token(lstrip(value, {"?"}), storage_account)
    ELSE IF IsConnectionString(normalized_value)
    THEN parse_connection_string(normalized_value, storage_account)
    ELSE parse_other(value, normalized_value, parsed_sas_url(value),
                     storage_account)

\* Lines 53-129: the branches on normalized_value.
parse_value(value, normalized_value, storage_account) ==
    IF value = <<>> THEN ValueError(<<"Credential must not be empty">>)
    ELSE IF IsDevelopmentStorage(normalized_value)
    THEN parse_development_storage(normalized_value, storage_account)
    ELSE IF IsConnectionString(normalized_value)
    THEN parse_connection_string(normalized_value, storage_account)
    ELSE parse_other(value, normalized_value, parsed_sas_url(value),
                     storage_account)

parse_credential(raw, storage_account) ==
    With(unquote(raw), LAMBDA value :
        parse_value(value, replace_cr(value), storage_account))

\* The input passes the tests of lines 53-192 and comes to the multi-line
\* block and the JSON document, the branches that call parse_credential.
reaches_wrapped(value, normalized_value) ==
    /\ value # <<>>
    /\ ~IsDevelopmentStorage(normalized_value)
    /\ ~IsConnectionString(normalized_value)
    /\ ~IsSasUrl(parsed_sas_url(value))
    /\ ~HasSigAndSv(lstrip(value, {"?"}))
    /\ ~IsBase64Like(strip(normalized_value, Whitespace))

\* Lines 193-208: the argument of the recursive call of the multi-line
\* block, None when the call is not made.
block_input(normalized_value) ==
    IF /\ IsMultiLine(normalized_value)
       /\ colon_segments(splitlines(normalized_value)) # <<>>
    THEN join(<<";">>, colon_segments(splitlines(normalized_value)))
    ELSE None

\* Lines 210-229: iter_string_candidates(decoded), empty when the value is
\* no JSON document.
json_candidates(value) ==
    With(json_loads(value), LAMBDA decoded :
        IF decoded.t # "null"
        THEN iter_string_candidates(<<decoded>>, <<>>)
        ELSE <<>>)

----------------------------------------------------------------------------
(* scripts/configure_demo_hosts.py: addresses.                             *)
(*                                                                         *)
(* In the texts of this script the atoms are the runs of letters and the   *)
(* runs of decimal digits; "." "," " " "-" and the line break are          *)
(* structural.  No text puts two numerals next to each other.              *)

\* The decimal numerals of the texts and the numbers they denote.
Decimal ==
    [t \in {"0", "1", "2", "4", "7", "8", "08", "10", "20", "32", "50", "51",
            "100", "113", "127", "169", "172", "192", "198", "203", "224",
            "254", "256", "1234"} |->
        CASE t = "0" -> 0 [] t = "1" -> 1 [] t = "2" -> 2 [] t = "4" -> 4
          [] t = "7" -> 7 [] t = "8" -> 8 [] t = "08" -> 8 [] t = "10" -> 10
          [] t = "20" -> 20 [] t = "32" -> 32 [] t = "50" -> 50
          [] t = "51" -> 51 [] t = "100" -> 100 [] t = "113" -> 113
          [] t = "127" -> 127 [] t = "169" -> 169 [] t = "172" -> 172
          [] t = "192" -> 192 [] t = "198" -> 198 [] t = "203" -> 203
          [] t = "224" -> 224 [] t = "254" -> 254 [] t = "256" -> 256
          [] t = "1234" -> 1234]

\* regex \d+ : the token is a run of digits
IsDigits(t) == t \in DOMAIN Decimal

\* The literal of an IPv6 address (of the documentation range 2001:db8::/32).
IPv6Literals == {"2001:db8::1"}

\* ipaddress: an IPv4 octet is 1 to 3 digits, at most 255, and has no
\* leading zero.
IsOctet(t) ==
    /\ IsDigits(t)
    /\ Len(t) <= 3
    /\ Decimal[t] <= 255
    /\ (Len(t) > 1 => Decimal[t] >= 10)
    /\ (Len(t) > 2 => Decimal[t] >= 100)

\* Four dot-separated tokens.
IsDotted(ip) ==
    /\ Len(ip) = 7
    /\ ip[2] = "." /\ ip[4] = "." /\ ip[6] = "."

IsIPv4(ip) ==
    /\ IsDotted(ip)
    /\ IsOctet(ip[1]) /\ IsOctet(ip[3]) /\ IsOctet(ip[5]) /\ IsOctet(ip[7])

IsIPv6(ip) == Len(ip) = 1 /\ ip[1] \in IPv6Literals

\* ipaddress.ip_address(ip) does not raise ValueError
ip_address(ip) == IsIPv4(ip) \/ IsIPv6(ip)

\* The octets of a valid IPv4 address, as numbers.
Octets(ip) == <<Decimal[ip[1]], Decimal[ip[3]], Decimal[ip[5]], Decimal[ip[7]]>>

\* IPv4Address.is_private: membership of the private networks of ipaddress
\* 0/8, 10/8, 127/8, 169.254/16, 172.16/12, 192.0.0.0/29, 192.0.0.170/31,
\* 192.0.2/24, 192.168/16, 198.18/15, 198.51.100/24, 203.0.113/24, 240/4,
\* 255.255.255.255/32.
is_private4(o) ==
    \/ o[1] = 0
    \/ o[1] = 10
    \/ o[1] = 127
    \/ o[1] = 169 /\ o[2] = 254
    \/ o[1] = 172 /\ o[2] >= 16 /\ o[2] <= 31
    \/ o[1] = 192 /\ o[2] = 0 /\ o[3] = 0 /\ o[4] <= 7
    \/ o[1] = 192 /\ o[2] = 0 /\ o[3] = 0 /\ o[4] >= 170 /\ o[4] <= 171
    \/ o[1] = 192 /\ o[2] = 0 /\ o[3] = 2
    \/ o[1] = 192 /\ o[2] = 168
    \/ o[1] = 198 /\ o[2] >= 18 /\ o[2] <= 19
    \/ o[1] = 198 /\ o[2] = 51 /\ o[3] = 100
    \/ o[1] = 203 /\ o[2] = 0 /\ o[3] = 113
    \/ o[1] >= 240

\* ip_obj.is_private; the IPv6 literal is of a private (documentation) range
is_private(ip) == IF IsIPv6(ip) THEN TRUE ELSE is_private4(Octets(ip))

\* ip_obj.is_loopback (127/8)
is_loopback(ip) == IsIPv4(ip) /\ Octets(ip)[1] = 127

\* ip_obj.is_link_local (169.254/16)
is_link_local(ip) ==
    IsIPv4(ip) /\ Octets(ip)[1] = 169 /\ Octets(ip)[2] = 254

\* ip_obj.is_multicast (224/4)
is_multicast(ip) ==
    IsIPv4(ip) /\ Octets(ip)[1] >= 224 /\ Octets(ip)[1] <= 239

\* ip_obj.is_unspecified (0.0.0.0)
is_unspecified(ip) == IsIPv4(ip) /\ Octets(ip) = <<0, 0, 0, 0>>

\* A rejection that tests is_private only.
IsPrivateOnly(ip) == is_private(ip)

\* The condition of the non-public rejection.
IsNonPublic(ip) ==
    \/ is_private(ip)
    \/ is_loopback(ip)
    \/ is_link_local(ip)
    \/ is_multicast(ip)
    \/ is_unspecified(ip)

----------------------------------------------------------------------------
(* Calls.                                                                  *)

\* How a call ends: it returns a value or raises an exception.
Return(value) == [kind |-> "return", value |-> value]

Raise(type, message) == [kind |-> "raise", type |-> type, message |-> message]

----------------------------------------------------------------------------
(* Host names.                                                             *)

\* f"{prefix}.{ip}.nip.io"
NipHost(prefix, ip) == <<prefix, ".">> \o ip \o <<".", "nip", ".", "io">>

\* Hosts without the check of the address.
build_hosts_unchecked(ip) ==
    [error |-> None,
     keycloak |-> NipHost("kc", ip),
     midpoint |-> NipHost("mp", ip),
     argocd |-> NipHost("argocd", ip)]

\* Hosts(keycloak, midpoint, argocd), or the ValueError of ip_address(ip)
build_hosts(ip) ==
    IF ~ip_address(ip)
    THEN [error |-> <<"ValueError">>]
    ELSE [error |-> None,
          keycloak |-> NipHost("kc", ip),
          midpoint |-> NipHost("mp", ip),
          argocd |-> NipHost("argocd", ip)]

----------------------------------------------------------------------------
(* update_manifest_hosts.                                                  *)

\* The number of tokens of <prefix>.<n>.<n>.<n>.<n>.nip.io
HostTokens == Len(NipHost("kc", <<"0", ".", "0", ".", "0", ".", "0">>))

\* <prefix>\.\d+\.\d+\.\d+\.\d+\.nip\.io matches text at token i.  The
\* pattern has no anchors: what precedes the prefix and what follows "io"
\* does not matter.
PatternMatchAt(text, i, prefix) ==
    /\ i + HostTokens - 1 <= Len(text)
    /\ text[i] = prefix
    /\ text[i + 1] = "." /\ IsDigits(text[i + 2])
    /\ text[i + 3] = "." /\ IsDigits(text[i + 4])
    /\ text[i + 5] = "." /\ IsDigits(text[i + 6])
    /\ text[i + 7] = "." /\ IsDigits(text[i + 8])
    /\ text[i + 9] = "." /\ text[i + 10] = "nip"
    /\ text[i + 11] = "." /\ text[i + 12] = "io"

\* pattern.sub(replacement, text): the non-overlapping matches, leftmost
\* first, are replaced.
RECURSIVE re_sub(_, _, _)
re_sub(prefix, replacement, text) ==
    IF text = <<>> THEN <<>>
    ELSE IF PatternMatchAt(text, 1, prefix)
    THEN replacement \o re_sub(prefix, replacement, Drop(text, HostTokens))
    ELSE <<text[1]>> \o re_sub(prefix, replacement, Tail(text))

\* A rewrite that knows the Keycloak pattern only.
replace_keycloak_host(content, hosts) ==
    re_sub("kc", hosts.keycloak, content)

\* The three substitutions, in the order of the replacements list.
replace_hosts(content, hosts) ==
    re_sub("argocd", hosts.argocd,
        re_sub("mp", hosts.midpoint,
            re_sub("kc", hosts.keycloak, content)))

\* The directories of the working tree and the parent of each entry.  A
\* path is a one-token text.
Directories == { <<"gitops">>, <<"gitops/sub">> }

Parent ==
    [p \in { <<"gitops/b.yaml">>, <<"gitops/sub">>, <<"gitops/sub/c.yaml">>,
             <<"gitops/params.env">>, <<"gitops/sub/params.env">> } |->
        CASE p = <<"gitops/b.yaml">> -> <<"gitops">>
          [] p = <<"gitops/sub">> -> <<"gitops">>
          [] p = <<"gitops/sub/c.yaml">> -> <<"gitops/sub">>
          [] p = <<"gitops/params.env">> -> <<"gitops">>
          [] p = <<"gitops/sub/params.env">> -> <<"gitops/sub">>]

\* Path.resolve(): a path written with a leading ./ names the same file.
resolve(path) ==
    IF path = <<"./gitops/params.env">> THEN <<"gitops/params.env">> ELSE path

\* Path.is_dir(), Path.is_file(), Path.exists(); fs maps each file to its text
is_dir(path) == path \in Directories

is_file(fs, path) == path \in DOMAIN fs

exists(fs, path) == is_dir(path) \/ is_file(fs, path)

\* update_manifest_hosts(manifest_files, hosts): the files after the call
\* and the exception that ended it, if any.  Reading a directory raises
\* IsADirectoryError; the files before it in the list are already written.
RECURSIVE update_manifest_hosts(_, _, _)
update_manifest_hosts(fs, manifest_files, hosts) ==
    IF manifest_files = <<>> THEN [files |-> fs, error |-> None]
    ELSE IF manifest_files[1] = None \/ ~exists(fs, manifest_files[1])
    THEN update_manifest_hosts(fs, Tail(manifest_files), hosts)
    ELSE IF is_dir(manifest_files[1])
    THEN [files |-> fs, error |-> <<"IsADirectoryError">>]
    ELSE update_manifest_hosts(
             [fs EXCEPT ![manifest_files[1]] = replace_hosts(@, hosts)],
             Tail(manifest_files), hosts)

----------------------------------------------------------------------------
(* read_ingress_class and write_params.                                    *)

\* The loop over the lines: the stripped text after the first "=" of the
\* first line that starts with ingressClass=, None when there is none.
RECURSIVE first_ingress_class(_)
first_ingress_class(lines) ==
    IF lines = <<>> THEN None
    ELSE IF startswith(lines[1], <<"ingressClass", "=">>)
    THEN strip(partition(lines[1], "=").tail, Whitespace)
    ELSE first_ingress_class(Tail(lines))

\* read_ingress_class(params_file)
read_ingress_class(fs, path) ==
    IF ~exists(fs, path) THEN None
    ELSE first_ingress_class(splitlines(fs[path]))

\* The text write_params writes: three comment lines and four key=value
\* lines, each ended by a line break.
params_text(class, hosts) ==
    <<"# Ingress parameters for the IAM demo environment.", "\n",
      "# Hosts rotate via scripts/configure_demo_hosts.py; update ingressClass here if", "\n",
      "# your cluster uses a different controller.", "\n">>
    \o <<"ingressClass", "=">> \o class \o <<"\n">>
    \o <<"keycloakHost", "=">> \o hosts.keycloak \o <<"\n">>
    \o <<"midpointHost", "=">> \o hosts.midpoint \o <<"\n">>
    \o <<"argocdHost", "=">> \o hosts.argocd \o <<"\n">>

\* write_params(params_file, ingress_class, hosts): the files after the call
write_params(fs, path, class, hosts) ==
    (path :> params_text(class, hosts)) @@ fs

----------------------------------------------------------------------------
(* discover_stale_hosts and ensure_hosts_rotated.                          *)

\* regex \w: the token is made of word characters
IsWord(t) == t \notin {".", ",", " ", "-", "\n"}

\* regex \b before token i and after token i - 1
WordBoundary(text, i) ==
    (i > 1 /\ IsWord(text[i - 1])) # (i <= Len(text) /\ IsWord(text[i]))

\* regex \d{1,3}
IsShortDigits(t) == IsDigits(t) /\ Len(t) <= 3

\* host_pattern matches text at token i
HostPatternMatchAt(text, i) ==
    /\ i + HostTokens - 1 <= Len(text)
    /\ WordBoundary(text, i)
    /\ text[i] \in {"kc", "mp", "argocd"}
    /\ text[i + 1] = "." /\ IsShortDigits(text[i + 2])
    /\ text[i + 3] = "." /\ IsShortDigits(text[i + 4])
    /\ text[i + 5] = "." /\ IsShortDigits(text[i + 6])
    /\ text[i + 7] = "." /\ IsShortDigits(text[i + 8])
    /\ text[i + 9] = "." /\ text[i + 10] = "nip"
    /\ text[i + 11] = "." /\ text[i + 12] = "io"
    /\ WordBoundary(text, i + HostTokens)

\* match.group(0) and match.group("ip") of the match at token i
MatchGroup0(text, i) == SubSeq(text, i, i + HostTokens - 1)

\* The whole match taken for the embedded address.
MatchGroupHost(text, i) == SubSeq(text, i, i + HostTokens - 1)

MatchGroupIp(text, i) == SubSeq(text, i + 2, i + 8)

\* The (candidate, match.group(0)) pairs of the stale matches of
\* host_pattern.finditer(contents), scanning from token i on.
RECURSIVE stale_matches(_, _, _, _)
stale_matches(candidate, contents, i, expected_ip) ==
    IF i > Len(contents) THEN <<>>
    ELSE IF ~HostPatternMatchAt(contents, i)
    THEN stale_matches(candidate, contents, i + 1, expected_ip)
    ELSE (IF MatchGroupIp(contents, i) # expected_ip
          THEN << <<candidate, MatchGroup0(contents, i)>> >>
          ELSE <<>>)
         \o stale_matches(candidate, contents, i + HostTokens, expected_ip)

\* p is path or lies under it
RECURSIVE IsUnder(_, _)
IsUnder(p, path) ==
    \/ p = path
    \/ p \in DOMAIN Parent /\ IsUnder(Parent[p], path)

\* The orders in which path.rglob("*") can list the files under path: the
\* order is the one of the directory listing, which is not specified.
rglob(fs, path) ==
    LET found == {p \in DOMAIN fs : IsUnder(p, path)}
    IN  {order \in [1..Cardinality(found) -> found] :
            \A p \in found : \E k \in DOMAIN order : order[k] = p}

\* The stale references of the candidates, in order.
RECURSIVE scan_candidates(_, _, _)
scan_candidates(fs, candidates, expected_ip) ==
    IF candidates = <<>> THEN <<>>
    ELSE stale_matches(candidates[1], fs[candidates[1]], 1, expected_ip)
         \o scan_candidates(fs, Tail(candidates), expected_ip)

\* discover_stale_hosts(paths, expected_ip), where listing[d] is the order
\* in which the directory d lists its files.
RECURSIVE discover_stale_hosts(_, _, _, _)
discover_stale_hosts(fs, paths, expected_ip, listing) ==
    IF paths = <<>> THEN <<>>
    ELSE (IF paths[1] = None THEN <<>>
          ELSE IF is_dir(paths[1])
          THEN scan_candidates(fs, listing[paths[1]], expected_ip)
          ELSE IF is_file(fs, paths[1])
          THEN scan_candidates(fs, <<paths[1]>>, expected_ip)
          ELSE <<>>)
         \o discover_stale_hosts(fs, Tail(paths), expected_ip, listing)

\* The directory listings a run can see.
Listings(fs) ==
    {listing \in [Directories -> UNION {rglob(fs, d) : d \in Directories}] :
        \A d \in Directories : listing[d] \in rglob(fs, d)}

\* A check that passes whatever the scan found.
hosts_rotated_unchecked(stale_hosts) == Return(None)

\* ensure_hosts_rotated: raises the RuntimeError that lists the stale
\* references, or returns None
ensure_hosts_rotated(stale_hosts) ==
    IF stale_hosts # <<>>
    THEN Raise("RuntimeError", <<"Found stale nip.io hostnames", stale_hosts>>)
    ELSE Return(None)

----------------------------------------------------------------------------
(* main() of configure_demo_hosts.py.                                      *)

\* A choice of the class that does not read the params file.
class_arg_or_default(fs, class_arg, path) ==
    IF Truthy(class_arg) THEN class_arg ELSE <<"nginx">>

\* args.ingress_class or read_ingress_class(args.params_file) or "nginx"
recorded_class(fs, class_arg, path) ==
    IF Truthy(class_arg) THEN class_arg
    ELSE IF Truthy(read_ingress_class(fs, path))
    THEN read_ingress_class(fs, path)
    ELSE <<"nginx">>

\* The loop over args.extra_params_file: write_params for each file that
\* does not resolve to the primary file.
RECURSIVE write_extra_params(_, _, _, _, _)
write_extra_params(fs, extra_files, path, class, hosts) ==
    IF extra_files = <<>> THEN fs
    ELSE IF extra_files[1] = None \/ resolve(extra_files[1]) = resolve(path)
    THEN write_extra_params(fs, Tail(extra_files), path, class, hosts)
    ELSE write_extra_params(
             write_params(fs, resolve(extra_files[1]), class, hosts),
             Tail(extra_files), path, class, hosts)

\* The extra files the loop writes, in order.
RECURSIVE extra_writes(_, _)
extra_writes(extra_files, path) ==
    IF extra_files = <<>> THEN <<>>
    ELSE (IF extra_files[1] = None \/ resolve(extra_files[1]) = resolve(path)
          THEN <<>>
          ELSE << <<"write_params">> \o resolve(extra_files[1]) >>)
         \o extra_writes(Tail(extra_files), path)

\* A write that replaces what the file held.
overwrite_text(fs, path, text) == (path :> text) @@ fs

\* A main() without the --print-only branch.
writes_always(flag) == FALSE

\* if args.print_only: the branch that ends main() before any write
returns_before_writes(flag) == flag

\* open(path, "a").write(text): the files after the text is appended
append_text(fs, path, text) ==
    (path :> ((IF path \in DOMAIN fs THEN fs[path] ELSE <<>>) \o text)) @@ fs

\* The four lines written to GITHUB_ENV
github_env_lines(ip, hosts) ==
    <<"EXTERNAL_IP", "=">> \o ip \o <<"\n">>
    \o <<"KC_HOST", "=">> \o hosts.keycloak \o <<"\n">>
    \o <<"MP_HOST", "=">> \o hosts.midpoint \o <<"\n">>
    \o <<"ARGOCD_HOST", "=">> \o hosts.argocd \o <<"\n">>

\* The three lines written to GITHUB_OUTPUT
github_output_lines(hosts) ==
    <<"keycloak_url", "=", "http", ":", "/", "/">> \o hosts.keycloak
        \o <<"\n">>
    \o <<"midpoint_url", "=", "http", ":", "/", "/">> \o hosts.midpoint
        \o <<"/", "midpoint", "\n">>
    \o <<"argocd_url", "=", "http", ":", "/", "/">> \o hosts.argocd
        \o <<"\n">>

----------------------------------------------------------------------------
(* resolve_ingress_ip and ensure_ingress_accessible.                       *)

\* The jsonpath queries of resolve_ingress_ip.
IpPath == "{.status.loadBalancer.ingress[*].ip}"

HostnamePath == "{.status.loadBalancer.ingress[*].hostname}"

TypePath == "{.spec.type}"

StatusPath == "{.status.loadBalancer}"

\* run_kubectl_jsonpath: KubectlError on a non-zero exit status, else the
\* stripped standard output.
run_kubectl_jsonpath(jsonpath, proc) ==
    IF proc.returncode # 0
    THEN Raise("KubectlError", <<"kubectl get ", jsonpath, " exited">>)
    ELSE Return(strip(proc.stdout, Whitespace))

\* try: run_kubectl_jsonpath(...) except KubectlError: ""
query_or_empty(jsonpath, proc) ==
    IF run_kubectl_jsonpath(jsonpath, proc).kind = "raise" THEN <<>>
    ELSE run_kubectl_jsonpath(jsonpath, proc).value

\* _split_candidates(raw)
_split_candidates(output) ==
    IF output = <<>> THEN <<>>
    ELSE SelectNonEmpty(
             re_split(strip(output, Whitespace), Whitespace \cup {","}))

\* A loop that takes the candidates as listed, oldest first.
RECURSIVE earliest_candidate(_)
earliest_candidate(candidates) ==
    IF candidates = <<>> THEN None
    ELSE IF ip_address(candidates[1]) THEN candidates[1]
    ELSE earliest_candidate(Tail(candidates))

\* for candidate in reversed(candidates): the first that ip_address accepts,
\* None when there is none
RECURSIVE latest_candidate(_)
latest_candidate(candidates) ==
    IF candidates = <<>> THEN None
    ELSE IF ip_address(candidates[Len(candidates)])
    THEN candidates[Len(candidates)]
    ELSE latest_candidate(Take(candidates, Len(candidates) - 1))

\* The reported host names put before the explicit one.
reported_hostnames_first(hostname, hostname_output) ==
    _split_candidates(hostname_output)
    \o (IF Truthy(hostname) THEN <<hostname>> ELSE <<>>)

\* hostname_candidates: the explicit hostname, then the reported ones
collect_hostnames(hostname, hostname_output) ==
    (IF Truthy(hostname) THEN <<hostname>> ELSE <<>>)
    \o _split_candidates(hostname_output)

\* status_hint after the service type query
type_hint(type_proc) ==
    IF run_kubectl_jsonpath(TypePath, type_proc).kind = "raise"
    THEN <<" Unable to query service type: ">>
         \o run_kubectl_jsonpath(TypePath, type_proc).message \o <<".">>
    ELSE <<>>

\* status_hint after the load balancer status query
status_hint_of(hint, status_proc) ==
    IF run_kubectl_jsonpath(StatusPath, status_proc).kind = "raise"
    THEN hint \o <<" Unable to query load balancer status: ">>
         \o run_kubectl_jsonpath(StatusPath, status_proc).message \o <<".">>
    ELSE IF query_or_empty(StatusPath, status_proc) # <<>>
    THEN hint \o <<" Current loadBalancer status: ">>
         \o query_or_empty(StatusPath, status_proc) \o <<".">>
    ELSE hint

\* The RuntimeError of resolve_ingress_ip
no_address_error(type_proc, status_proc) ==
    Raise("RuntimeError",
          <<"Ingress controller does not expose an external IP or hostname yet.">>
          \o status_hint_of(type_hint(type_proc), status_proc)
          \o (IF query_or_empty(TypePath, type_proc) # <<>>
              THEN <<" Service type: ">>
                   \o query_or_empty(TypePath, type_proc) \o <<".">>
              ELSE <<>>))

\* The RuntimeError of ensure_ingress_accessible for a non-public address
non_public_error(ip) ==
    Raise("RuntimeError",
          <<"Ingress controller resolved to a non-public IP address", ip>>)

\* The message of ensure_ingress_accessible when no port accepted
unreachable_message(ip, port_list, errors) ==
    <<"Unable to reach the ingress load balancer at", ip, port_list, errors>>

\* An ending that ignores raise_on_error.
unreachable_always_raises(raising, message) ==
    Raise("RuntimeError", message)

\* How ensure_ingress_accessible ends when no port accepted a connection
unreachable(raising, message) ==
    IF raising THEN Raise("RuntimeError", message) ELSE Return(None)

\* What it prints to stderr then
unreachable_warning(raising, message) ==
    IF raising THEN <<>> ELSE << <<"WARNING", message>> >>

\* connection_errors[port] = exc
record_error(errors, port) ==
    IF \E k \in DOMAIN errors : errors[k] = port THEN errors
    ELSE Append(errors, port)

----------------------------------------------------------------------------
(* The external tools: kubectl and az.  A command is the list of its       *)
(* arguments, each a text; a finished process has a return code and the    *)
(* texts it wrote to stdout and stderr.                                    *)

\* service.split("/")
RECURSIVE split_slash(_)
split_slash(s) ==
    With(partition(s, "/"), LAMBDA p :
        IF ~p.found THEN <<s>>
        ELSE <<p.head>> \o split_slash(p.tail))

\* _format_kubectl_resource(service): (namespace, resource)
_format_kubectl_resource(service) ==
    With(split_slash(service), LAMBDA parts :
        IF Len(parts) = 2
        THEN Return(<<parts[1], <<"service", "/">> \o parts[2]>>)
        ELSE IF Len(parts) = 3
        THEN Return(<<parts[1], parts[2] \o <<"/">> \o parts[3]>>)
        ELSE Raise("ValueError",
                   <<"--ingress-service must be <namespace>/<name> or <namespace>/<resource>/<name>">>))

\* _parse_service(service): (namespace, name)
_parse_service(service) ==
    With(split_slash(service), LAMBDA parts :
        IF Len(parts) = 2 THEN Return(<<parts[1], parts[2]>>)
        ELSE IF Len(parts) = 3 THEN Return(<<parts[1], parts[3]>>)
        ELSE Raise("ValueError",
                   <<"--ingress-service must be <namespace>/<name> or <namespace>/<resource>/<name>">>))

\* cmd of run_kubectl_jsonpath
jsonpath_cmd(namespace, resource, jsonpath) ==
    << <<"kubectl">>, <<"-n">>, namespace, <<"get">>, resource, <<"-o">>,
       <<"jsonpath=">> \o jsonpath >>

\* " ".join(details) of run_kubectl_jsonpath
kubectl_details(cmd, proc) ==
    <<"kubectl command ">> \o join(<<" ">>, cmd)
    \o <<" exited with status ", ToString(proc.returncode), ".">>
    \o (IF strip(proc.stderr, Whitespace) # <<>>
        THEN <<" ", "stderr: ">> \o strip(proc.stderr, Whitespace)
        ELSE <<>>)
    \o (IF strip(proc.stdout, Whitespace) # <<>>
        THEN <<" ", "stdout: ">> \o strip(proc.stdout, Whitespace)
        ELSE <<>>)

\* run_kubectl_jsonpath(service, jsonpath) once its process has finished
kubectl_jsonpath_outcome(cmd, proc) ==
    IF proc.returncode # 0
    THEN Raise("KubectlError", kubectl_details(cmd, proc))
    ELSE Return(strip(proc.stdout, Whitespace))

\* _run_command(cmd, check=check) once its process has finished
_run_command(cmd, check, proc) ==
    IF check /\ proc.returncode # 0
    THEN Raise("RuntimeError",
               <<"Command ">> \o join(<<" ">>, cmd)
               \o <<" failed with exit code ", ToString(proc.returncode),
                    ": ">>
               \o strip(proc.stderr, Whitespace))
    ELSE Return(proc)

\* proc.stderr.strip() or default
stderr_or(proc, default) ==
    IF strip(proc.stderr, Whitespace) # <<>>
    THEN strip(proc.stderr, Whitespace)
    ELSE default

\* _run_az(cmd) once its process has finished
_run_az(cmd, proc) ==
    IF proc.returncode # 0
    THEN Raise("AzureCliError", stderr_or(proc, <<"Azure CLI command failed">>))
    ELSE Return(proc)

\* cmd of _kubectl_json
kubectl_json_cmd(namespace, name) ==
    << <<"kubectl">>, <<"-n">>, namespace, <<"get">>,
       <<"service", "/">> \o name, <<"-o">>, <<"json">> >>

\* _kubectl_json(namespace, name) once its process has finished; the
\* document kubectl printed is returned as it is.
_kubectl_json(proc) ==
    IF proc.returncode # 0
    THEN Raise("KubectlError", stderr_or(proc, <<"kubectl command failed">>))
    ELSE Return(proc.stdout)

\* cmd of _patch_service; payload is json.dumps(patch)
patch_cmd(namespace, name, payload) ==
    << <<"kubectl">>, <<"-n">>, namespace, <<"patch">>,
       <<"service", "/">> \o name, <<"--type">>, <<"merge">>, <<"-p">>,
       payload >>

\* _patch_service(namespace, name, patch) once its process has finished
_patch_service(cmd, proc) ==
    IF _run_command(cmd, TRUE, proc).kind = "raise"
    THEN _run_command(cmd, TRUE, proc)
    ELSE Return(None)

----------------------------------------------------------------------------
(* apply_secret of normalize_azure_storage_secret.py                       *)

\* f"--from-literal={name}={value}"
from_literal(name, value) == <<"--from-literal=" \o name \o "=">> \o value

\* Both optional literals whatever the credential holds.
every_literal(cred) ==
    << from_literal("AZURE_STORAGE_KEY", cred.account_key),
       from_literal("AZURE_STORAGE_SAS_TOKEN", cred.sas_token) >>

\* The literals appended under `if credential.account_key:` and
\* `if credential.sas_token:`.
optional_literals(cred) ==
    (IF Truthy(cred.account_key)
     THEN << from_literal("AZURE_STORAGE_KEY", cred.account_key) >>
     ELSE <<>>)
    \o (IF Truthy(cred.sas_token)
        THEN << from_literal("AZURE_STORAGE_SAS_TOKEN", cred.sas_token) >>
        ELSE <<>>)

\* args of apply_secret
create_secret_args(namespace, cred) ==
    << <<"kubectl">>, <<"-n">>, namespace, <<"create">>, <<"secret">>,
       <<"generic">>, <<"cnpg-azure-backup">>, <<"--dry-run=client">>,
       <<"-o">>, <<"yaml">>,
       from_literal("AZURE_STORAGE_ACCOUNT", cred.storage_account),
       from_literal("AZURE_CONNECTION_STRING", cred.connection_string) >>
    \o optional_literals(cred)

\* The command of the second stage.
apply_args == << <<"kubectl">>, <<"apply">>, <<"-f">>, <<"-">> >>

\* The first stage once its process has finished: the error of a failed
\* rendering, or the process.
render_outcome(proc) ==
    IF proc.returncode # 0
    THEN Raise("RuntimeError",
               stderr_or(proc, <<"Failed to render cnpg-azure-backup secret">>))
    ELSE Return(proc)

\* What the second stage leaves.
apply_outcome(proc) ==
    IF proc.returncode # 0
    THEN Raise("RuntimeError", stderr_or(proc, <<"kubectl apply failed">>))
    ELSE Return(None)

----------------------------------------------------------------------------
(* _wait_for_load_balancer of ensure_ingress_load_balancer.py              *)

\* The loop test with the deadline included.
until_after_deadline(now, limit) == now <= limit

\* while time.monotonic() < deadline
loop_continues(now, limit) == now < limit

\* try: ... = run_kubectl_jsonpath(...) except KubectlError: ... = ""
address_or_empty(outcome) ==
    IF outcome.kind = "raise" /\ outcome.type = "KubectlError"
    THEN <<>>
    ELSE outcome.value

\* time.sleep(interval): a negative length is refused.
sleep_outcome(length) ==
    IF length < 0
    THEN Raise("ValueError", <<"sleep length must be non-negative">>)
    ELSE Return(None)

\* The error after the loop.
timed_out ==
    Raise("RuntimeError",
          <<"Timed out waiting for the ingress load balancer to publish an external IP or hostname">>)

----------------------------------------------------------------------------
(* main() of ensure_ingress_load_balancer.py and what it calls.  A service *)
(* document is a record of spec.type and of the annotation                 *)
(* service.beta.kubernetes.io/azure-load-balancer-resource-group, each     *)
(* None when the document has none.                                        *)

ServiceDocument(type, annotation) == [type |-> type, annotation |-> annotation]

\* A type patch whatever the type.
type_patch_always(document) == TRUE

\* _ensure_service_type: the service is patched unless spec.type is
\* LoadBalancer.
needs_type_patch(document) == document.type # <<"LoadBalancer">>

\* _ensure_annotation: the service is patched unless the annotation is value.
needs_annotation_patch(document, value) == document.annotation # value

\* json.dumps of the patch of _ensure_service_type
type_patch == <<"{\"spec\": {\"type\": \"LoadBalancer\"}}">>

\* json.dumps of the patch of _ensure_annotation
annotation_patch(value) ==
    <<"{\"metadata\": {\"annotations\": {\"service.beta.kubernetes.io/azure-load-balancer-resource-group\": \"">>
    \o value \o <<"\"}}}">>

\* The service after kubectl has merged the patch.
patched_service(document, payload) ==
    IF payload = type_patch
    THEN [document EXCEPT !.type = <<"LoadBalancer">>]
    ELSE [document EXCEPT
             !.annotation = SubSeq(payload, 2, Len(payload) - 1)]

\* _discover_node_resource_group: `if not resource_group or not aks_name`
discovers(group, name) == Truthy(group) /\ Truthy(name)

\* The command of _discover_node_resource_group.
discover_cmd(group, name) ==
    << <<"az">>, <<"aks">>, <<"show">>, <<"--resource-group">>, group,
       <<"--name">>, name, <<"--query">>, <<"nodeResourceGroup">>, <<"-o">>,
       <<"tsv">> >>

\* _discover_node_resource_group once az has finished: AzureCliError is
\* caught; proc.stdout.strip() or None
discovered(outcome) ==
    IF outcome.kind = "raise" THEN None
    ELSE IF strip(outcome.value.stdout, Whitespace) = <<>> THEN None
    ELSE strip(outcome.value.stdout, Whitespace)

\* The commands of _emit_azure_diagnostics.
diagnostics_cmds(group) ==
    << << <<"az">>, <<"network">>, <<"public-ip">>, <<"list">>,
          <<"--resource-group">>, group, <<"--query">>,
          <<"[].{name:name, ipAddress:ipAddress, provisioningState:provisioningState}">>,
          <<"-o">>, <<"table">> >>,
       << <<"az">>, <<"network">>, <<"lb">>, <<"list">>,
          <<"--resource-group">>, group, <<"--query">>,
          <<"[].{name:name, provisioningState:provisioningState}">>,
          <<"-o">>, <<"table">> >>,
       << <<"az">>, <<"network">>, <<"lb">>, <<"frontend-ip">>, <<"list">>,
          <<"--resource-group">>, group, <<"--lb-name">>, <<"kubernetes">>,
          <<"-o">>, <<"table">> >>,
       << <<"az">>, <<"network">>, <<"lb">>, <<"rule">>, <<"list">>,
          <<"--resource-group">>, group, <<"--lb-name">>, <<"kubernetes">>,
          <<"-o">>, <<"table">> >> >>

----------------------------------------------------------------------------
(* State.                                                                  *)

VARIABLES
    pc,             \* the step the run is at
    result,         \* how the call under observation ended
    \* normalize_azure_storage_secret.py
    secret,         \* the credential text before it is wrapped
    wrapper,        \* how the text is wrapped into the --credential argument
    fallback,       \* the --storage-account argument
    credential,     \* parse_credential(raw, fallback)
    unwrapped,      \* parse_credential(secret, fallback)
    reparsed,       \* parse_credential(credential.connection_string, fallback)
    frames,         \* the calls of parse_credential that have not returned
    calls,          \* every call of parse_credential made, with its outcome
    \* configure_demo_hosts.py
    ip_value,       \* the ingress address
    files,          \* the text of each file of the working tree
    original,       \* the text of each file before the run
    manifest_files, \* --manifest-file
    validation_paths,   \* --validation-path
    stale,          \* discover_stale_hosts(validation_paths, ip_value)
    explicit_ip,    \* --ingress-ip
    explicit_hostname,  \* --ingress-hostname
    kubectl_calls,  \* the kubectl queries made, with their exit status
    ip_values,      \* the reported load balancer addresses
    hostname_values,    \* the reported load balancer host names
    hostname_candidates,    \* the host names still to look up
    lookups,        \* the gethostbyname calls made, with their outcome
    ports,          \* the candidate ports
    skip_reachability_check,    \* --skip-reachability-check
    remaining,      \* the ports still to try
    attempts,       \* the create_connection calls made, with their outcome
    connection_errors,  \* the ports whose connection failed
    stderr,         \* the warnings printed
    ingress_class_arg,  \* --ingress-class
    print_only,     \* --print-only
    params_file,    \* --params-file
    extra_params_files, \* --extra-params-file
    github_env,     \* the GITHUB_ENV environment variable
    github_output,  \* the GITHUB_OUTPUT environment variable
    ingress_class,  \* the class main() records
    steps,          \* the steps of main() taken so far
    \* the external tools
    service,        \* --ingress-service
    commands,       \* the subprocess.run calls made, with their outcome
    \* _wait_for_load_balancer
    timeout,        \* --timeout
    interval,       \* --interval
    clock,          \* time.monotonic()
    deadline,       \* deadline
    polls,          \* the polls made: the time of the loop test, the answers
    sleeps,         \* the sleeps made: from when until when
    \* main() of ensure_ingress_load_balancer.py
    resource_group, \* --resource-group
    aks_name,       \* --aks-name
    node_rg,        \* node_rg
    live,           \* the service as the cluster holds it
    fetched,        \* service, the document main() fetched last
    patched         \* patched

recursion_vars == <<frames, calls>>

credential_vars ==
    <<secret, wrapper, fallback, credential, unwrapped, reparsed,
      recursion_vars>>

hosts_vars == <<files, original, manifest_files, validation_paths, stale>>

resolve_vars ==
    <<explicit_ip, explicit_hostname, kubectl_calls, ip_values,
      hostname_values, hostname_candidates, lookups>>

access_vars ==
    <<ports, skip_reachability_check, remaining, attempts, connection_errors,
      stderr>>

main_vars ==
    <<ingress_class_arg, print_only, params_file, extra_params_files,
      github_env, github_output, ingress_class, steps>>

wait_vars == <<timeout, interval, clock, deadline, polls, sleeps>>

ensure_vars == <<resource_group, aks_name, node_rg, live, fetched, patched>>

tool_vars == <<service, commands, wait_vars, ensure_vars>>

vars ==
    <<pc, result, ip_value, credential_vars, hosts_vars, resolve_vars,
      access_vars, main_vars, tool_vars>>

\* The result of a call that has not ended.
Running == [kind |-> "running"]

\* The value of a result variable before its call has run.
NotRun == ValueError(<<"not run">>)

\* The variables a run of the other script leaves alone.
RecursionIdle ==
    /\ frames = <<>>
    /\ calls = <<>>

CredentialIdle ==
    /\ secret = <<>>
    /\ wrapper = <<"none">>
    /\ fallback = <<>>
    /\ credential = NotRun
    /\ unwrapped = NotRun
    /\ reparsed = NotRun
    /\ RecursionIdle

HostsIdle ==
    /\ files = <<>>
    /\ original = <<>>
    /\ manifest_files = <<>>
    /\ validation_paths = <<>>
    /\ stale = <<>>

ResolveIdle ==
    /\ explicit_ip = None
    /\ explicit_hostname = None
    /\ kubectl_calls = <<>>
    /\ ip_values = <<>>
    /\ hostname_values = <<>>
    /\ hostname_candidates = <<>>
    /\ lookups = <<>>

AccessIdle ==
    /\ ports = <<>>
    /\ skip_reachability_check = FALSE
    /\ remaining = <<>>
    /\ attempts = <<>>
    /\ connection_errors = <<>>
    /\ stderr = <<>>

MainIdle ==
    /\ ingress_class_arg = None
    /\ print_only = FALSE
    /\ params_file = None
    /\ extra_params_files = <<>>
    /\ github_env = None
    /\ github_output = None
    /\ ingress_class = None
    /\ steps = <<>>

WaitIdle ==
    /\ timeout = 0
    /\ interval = 0
    /\ clock = 0
    /\ deadline = 0
    /\ polls = <<>>
    /\ sleeps = <<>>

EnsureIdle ==
    /\ resource_group = None
    /\ aks_name = None
    /\ node_rg = None
    /\ live = None
    /\ fetched = None
    /\ patched = FALSE

ToolIdle ==
    /\ service = None
    /\ commands = <<>>
    /\ WaitIdle
    /\ EnsureIdle

----------------------------------------------------------------------------
(* The inputs of parse_credential.                                         *)

\* A 27-character account key, without padding.
Key == <<"ZmFrZUFjY291bnRLZXkxMjM0NTY">>

SasToken == <<"sv", "=", "v1", "&", "sig", "=", "s1">>

\* The key=value segments connection strings are built from.
Segments ==
    { <<"AccountName", "=", "demo">>,
      <<"AccountName", "=">>,
      <<"AccountKey", "=", "k1">>,
      <<"SharedAccessSignature", "=">> \o SasToken,
      <<"BlobEndpoint", "=", "https", ":", "/", "/", "example", "/">>,
      <<"defaultendpointsprotocol", "=", "http">>,
      <<"EndpointSuffix", "=", "example">>,
      <<"QueueEndpoint", "=", "https", ":", "/", "/", "example", "/">>,
      <<"Foo", "=", "bar">> }

\* Delimited connection strings of 1..MaxSegments segments.
ConnectionStrings ==
    { join(<<";">>, segs) :
        segs \in UNION { [1..n -> Segments] : n \in 1..MaxSegments } }

\* Account keys of 14 and of 15 characters.
Key14 == <<"ZmFrZUFjY291bn">>

Key15 == <<"ZmFrZUFjY291bnR">>

\* Credentials in the other encodings, and texts that are none.
OtherSecrets ==
    { Key,
      Key \o <<"=">>,
      SasToken,
      <<"?">> \o SasToken,
      <<"https", ":", "/", "/", "demo", ".blob.core.windows.net", "/",
        "backups", "?">> \o SasToken,
      <<"http", ":", "/", "/", "example", "/", "?">> \o SasToken,
      <<"UseDevelopmentStorage", "=", "true">>,
      <<"usedevelopmentstorage", "=", "True", ";", "AccountKey", "=", "k1">>,
      <<"UseDevelopmentStorage", "=", "true", ";", "k1">>,
      <<"AccountName", ":", " ", "demo", "\n", "AccountKey", ":", " ", "k1">>,
      <<"AccountKey", "=", "k1", "\n", "AccountName", "=", "demo">>,
      <<"k1">>,
      <<>> }

\* Further SAS tokens and URLs.
SasSecrets ==
    { <<"?", "?">> \o SasToken,
      <<"Sig", "=", "s1", "&", "Sv", "=", "v1">>,
      <<"HTTPS", ":", "/", "/", "Demo", ".blob.core.windows.net", "/",
        "backups", "?">> \o SasToken,
      <<"https", ":", "/", "/", "example", "@", "demo",
        ".blob.core.windows.net", ":", "7", "/", "?">> \o SasToken,
      <<"https", ":", "/", "/", "example", "/", "?">> \o SasToken
          \o <<"#", "foo">>,
      <<"demo", ".blob.core.windows.net", "/", "backups", "?">> \o SasToken,
      <<"https", ":", "/", "/", "example", "/", "?", "sv", "=", "v1">> }

\* Further development-storage texts.
DevelopmentSecrets ==
    { <<"usedevelopmentstorage", "=", "True">>,
      <<"UseDevelopmentStorage", "=", "trueX">>,
      <<"UseDevelopmentStorage", "=", "true", "\n", "AccountKey", "=", "k1">>,
      <<"AccountKey", "=", "k1", ";", "UseDevelopmentStorage", "=", "true">> }

\* Further key: value blocks: quotes, an inline comment, '=' padding.
BlockSecrets ==
    { <<"AccountName", ":", " ", "\"", "demo", "\"", "\n",
        "AccountKey", ":", " ", "k1", " ", "#", " ", "foo">>,
      <<"AccountName", ":", " ", "demo", "\n",
        "AccountKey", ":", " ", "k1", "=", "=">>,
      <<"AccountName", ":", " ", "demo", "\n",
        "AccountKey", ":", " ", "\"", "k1", "=", "=", "\"">>,
      <<"AccountName", ":", " ", "demo", "\n",
        "AccountKey", ":", " ", "k1", "=", "=", " ", "#", " ", "foo">>,
      <<"Foo", ":", " ", "bar", "\n", "k1">>,
      <<"UseDevelopmentStorage", ":", " ", "true", "\n", "k1">> }

\* Further account keys, and texts that only look like one.
KeySecrets ==
    { Key14,
      Key15,
      Key15 \o <<"+", "/", "k1", "=", "=">>,
      Key15 \o <<"-", "_", "k1">>,
      <<"SharedAccessSignature", "=">>,
      <<"k1", "/", "AccountKey", "=">> }

\* Further texts no branch accepts.
UndetectedSecrets ==
    { <<"ab", " ", " ", "cdefgh">>,
      <<"ab", " ", " ", "xdefgh">>,
      <<"abcdefgh">>,
      <<"abcdxygh">>,
      <<"abcdef">>,
      <<"abcdefg">>,
      <<"a", " ", " ", " ", " ", " ", " ", "b">>,
      <<"\"">> }

Secrets ==
    ConnectionStrings \cup OtherSecrets \cup SasSecrets
    \cup DevelopmentSecrets \cup BlockSecrets \cup KeySecrets
    \cup UndetectedSecrets

\* The JSON wrappers: 1..MaxDepth layers, each an object or an array.
JsonWrappers ==
    UNION { [1..n -> {"object", "array"}] : n \in 1..MaxDepth }

\* json.dumps of the text s inside the layers, outermost first.  No text
\* that is wrapped holds a character json.dumps would escape.
RECURSIVE json_wrap(_, _)
json_wrap(layers, s) ==
    IF layers = <<>> THEN <<"\"">> \o s \o <<"\"">>
    ELSE IF layers[1] = "object"
    THEN <<"{", "\"", "value", "\"", ":", " ">>
         \o json_wrap(Tail(layers), s) \o <<"}">>
    ELSE <<"[">> \o json_wrap(Tail(layers), s) \o <<"]">>

Escaped == {"\"", "\n", "\r", "\t"}

Wrappers(s) ==
    { <<"none">>, <<"quoted">>, <<"padded">> }
    \cup (IF \E i \in 1..Len(s) : s[i] \in Escaped THEN {} ELSE JsonWrappers)

\* The --credential argument.
Wrap(w, s) ==
    IF w = <<"none">> THEN s
    ELSE IF w = <<"quoted">> THEN <<"\"">> \o s \o <<"\"">>
    ELSE IF w = <<"padded">> THEN <<" ">> \o s \o <<"\n">>
    ELSE json_wrap(w, s)

raw == Wrap(wrapper, secret)

----------------------------------------------------------------------------
(* The credential normalizer as a state machine: main() parses the         *)
(* --credential argument; the two further steps parse the unwrapped text   *)
(* and the connection string the first step produced.                      *)

InitCredential ==
    /\ pc = "start"
    /\ secret \in Secrets
    /\ wrapper \in Wrappers(secret)
    /\ fallback \in { <<"acct">> }
    /\ credential = NotRun
    /\ unwrapped = NotRun
    /\ reparsed = NotRun
    /\ RecursionIdle
    /\ result = Running
    /\ ip_value = None
    /\ HostsIdle /\ ResolveIdle /\ AccessIdle
    /\ MainIdle /\ ToolIdle

\* main(): credential = parse_credential(args.credential, args.storage_account)
Parse ==
    /\ pc = "start"
    /\ credential' = parse_credential(raw, fallback)
    /\ pc' = "parsed"
    /\ UNCHANGED <<secret, wrapper, fallback, unwrapped, reparsed,
                   recursion_vars, result, ip_value, hosts_vars,
                   resolve_vars, access_vars, main_vars, tool_vars>>

\* parse_credential on the text the argument wraps.
ParseUnwrapped ==
    /\ pc = "parsed"
    /\ unwrapped' = parse_credential(secret, fallback)
    /\ pc' = "unwrapped"
    /\ UNCHANGED <<secret, wrapper, fallback, credential, reparsed,
                   recursion_vars, result, ip_value, hosts_vars,
                   resolve_vars, access_vars, main_vars, tool_vars>>

\* parse_credential on its own output.
Reparse ==
    /\ pc = "unwrapped"
    /\ credential.error = None
    /\ reparsed' = parse_credential(credential.connection_string, fallback)
    /\ pc' = "reparsed"
    /\ UNCHANGED <<secret, wrapper, fallback, credential, unwrapped,
                   recursion_vars, result, ip_value, hosts_vars,
                   resolve_vars, access_vars, main_vars, tool_vars>>

NextCredential == Parse \/ ParseUnwrapped \/ Reparse

SpecCredential == InitCredential /\ [][NextCredential]_vars

----------------------------------------------------------------------------
(* Claims about parse_credential.                                          *)

\* A credential was returned (no ValueError).
Returned(c) == c.error = None

\* C1: parse_credential is idempotent on its own output: re-parsing the
\* connection_string of a returned credential, with the same fallback
\* account, returns a credential equal to it in all four fields.
C1_Idempotent ==
    pc = "reparsed" =>
        /\ Returned(reparsed)
        /\ reparsed.storage_account = credential.storage_account
        /\ reparsed.connection_string = credential.connection_string
        /\ reparsed.account_key = credential.account_key
        /\ reparsed.sas_token = credential.sas_token

\* C2: a JSON document that wraps a connection string as a string value, at
\* any nesting depth of objects and arrays, parses to the same credential
\* (all four fields) as the connection string itself.
C2_JsonWrapperEquivalent ==
    (pc \in {"unwrapped", "reparsed"} /\ wrapper \in JsonWrappers
     /\ secret \in ConnectionStrings) =>
        credential = unwrapped

\* C9: a returned credential has exactly one of account_key and sas_token
\* populated, or neither and then it is a development-storage credential.
C9_ExactlyOneSecret ==
    (pc # "start" /\ Returned(credential)) =>
        \/ (credential.account_key # None) # (credential.sas_token # None)
        \/ /\ credential.account_key = None
           /\ credential.sas_token = None
           /\ IsDevelopmentStorage(replace_cr(unquote(raw)))

\* s.split(";")
RECURSIVE split_semicolon(_)
split_semicolon(s) ==
    IF ~Contains(s, ";") THEN <<s>>
    ELSE <<partition(s, ";").head>> \o split_semicolon(partition(s, ";").tail)

\* A segment of the form key=value with a non-empty key; when the key is
\* name, the value is the field.
SegmentCarries(segment, name, field) ==
    /\ FirstIn(segment, {"="}) > 1
    /\ lower(partition(segment, "=").head) = <<name>> =>
           partition(segment, "=").tail = field

\* C10: the connection_string of a returned credential is a
\* semicolon-delimited sequence of key=value segments with non-empty keys,
\* whose AccountName, AccountKey and SharedAccessSignature segments carry
\* the values of storage_account, account_key and sas_token.
C10_ConnectionStringWellFormed ==
    (pc # "start" /\ Returned(credential)) =>
        \A i \in 1..Len(split_semicolon(credential.connection_string)) :
            LET segment == split_semicolon(credential.connection_string)[i]
            IN  /\ SegmentCarries(segment, "accountname",
                                  credential.storage_account)
                /\ SegmentCarries(segment, "accountkey",
                                  credential.account_key)
                /\ SegmentCarries(segment, "sharedaccesssignature",
                                  credential.sas_token)

\* The value parse_credential examines, and the same with its line breaks
\* normalized.
Value == unquote(raw)

Normalized == replace_cr(Value)

\* The call of main() has ended.
Parsed == pc # "start"

\* The input is parsed by the connection-string branch.
TakesConnectionBranch ==
    /\ Value # <<>>
    /\ ~IsDevelopmentStorage(Normalized)
    /\ IsConnectionString(Normalized)

\* The key=value segments of a delimited text: the pieces between ';' and
\* line breaks in which a non-empty key precedes the first '=' and a
\* non-empty value follows it.
KeyValueSegments(text) ==
    SelectSeq(StripEach(re_split(text, {";", "\n"})),
              LAMBDA segment :
                  /\ FirstIn(segment, {"="}) > 1
                  /\ ~Contains(partition(segment, "=").head, ":")
                  /\ strip(partition(segment, "=").tail, Whitespace) # <<>>)

\* The segment is one of the segments of the connection string: the same
\* key, whatever its letter case, and the same value.
Represented(segment, connection_string) ==
    \E j \in 1..Len(split_semicolon(connection_string)) :
        LET out == split_semicolon(connection_string)[j]
        IN  /\ lower(strip(partition(out, "=").head, Whitespace))
                   = lower(strip(partition(segment, "=").head, Whitespace))
            /\ strip(partition(out, "=").tail, Whitespace)
                   = strip(partition(segment, "=").tail, Whitespace)

\* C11: parse_credential is total and drops no data: every call returns a
\* credential or raises one of its two ValueErrors, and when the input is
\* parsed as a delimited connection string every key=value segment of the
\* input is a segment of the returned connection_string.
C11_TotalAndLossless ==
    Parsed =>
        /\ \/ Returned(credential)
           \/ credential.error = <<"Credential must not be empty">>
           \/ credential.error = undetected_message(Normalized)
        /\ (TakesConnectionBranch /\ Returned(credential)) =>
               \A i \in 1..Len(KeyValueSegments(Normalized)) :
                   Represented(KeyValueSegments(Normalized)[i],
                               credential.connection_string)

\* The triggers of the first five branches, in the order of the code.
Triggers ==
    << IsDevelopmentStorage(Normalized),
       IsConnectionString(Normalized),
       IsSasUrl(parsed_sas_url(Value)),
       HasSigAndSv(lstrip(Value, {"?"})),
       IsBase64Like(strip(Normalized, Whitespace)) >>

\* The result of each of the first five branches.
BranchResults ==
    << parse_development_storage(Normalized, fallback),
       parse_connection_string(Normalized, fallback),
       parse_sas_url(parsed_sas_url(Value), fallback),
       parse_sas_token(lstrip(Value, {"?"}), fallback),
       parse_account_key(Value, fallback) >>

\* Branch k is the first branch whose trigger holds.
FirstTriggered(k) == Triggers[k] /\ \A j \in 1..(k - 1) : ~Triggers[j]

\* The multi-line branch: the key=value text it builds, <<>> when it does
\* not apply.
BlockText ==
    IF IsMultiLine(Normalized)
    THEN join(<<";">>, colon_segments(splitlines(Normalized)))
    ELSE <<>>

\* The JSON branch: the strings of the document that differ from the input.
JsonCandidates ==
    SelectSeq(iter_string_candidates(<<json_loads(Value)>>, <<>>),
              LAMBDA candidate : candidate # Value)

\* The result of the last three branches: the block when it parses, else
\* the first string of the JSON document that parses, else the error.
LaterBranches ==
    IF BlockText # <<>> /\ Returned(parse_credential(BlockText, fallback))
    THEN parse_credential(BlockText, fallback)
    ELSE IF \E k \in 1..Len(JsonCandidates) :
                Returned(parse_credential(JsonCandidates[k], fallback))
    THEN parse_credential(
             JsonCandidates[
                 CHOOSE k \in 1..Len(JsonCandidates) :
                     /\ Returned(parse_credential(JsonCandidates[k], fallback))
                     /\ \A j \in 1..(k - 1) :
                            ~Returned(parse_credential(JsonCandidates[j],
                                                       fallback))],
             fallback)
    ELSE ValueError(undetected_message(Normalized))

\* C12: the branches are applied in the order development storage,
\* connection string, SAS URL, bare SAS token, bare account key, multi-line
\* block, JSON wrapper, error, and the result is that of the first branch
\* whose trigger holds and that succeeds; in particular a text with '='
\* and ';' or a line break that is not a development-storage text is parsed
\* as a connection string, also when it holds sig= and sv= or is valid JSON.
C12_BranchOrder ==
    (Parsed /\ Value # <<>>) =>
        /\ \A k \in 1..5 : FirstTriggered(k) => credential = BranchResults[k]
        /\ (\A k \in 1..5 : ~Triggers[k]) => credential = LaterBranches
        /\ (/\ ~IsDevelopmentStorage(Normalized)
            /\ Contains(Normalized, "=")
            /\ Contains(Normalized, ";") \/ Contains(Normalized, "\n")) =>
               credential = parse_connection_string(Normalized, fallback)

\* A connection string that carries a SAS token and an account key: the
\* trigger of the bare SAS token holds as well, the connection-string branch
\* is the one that parsed it.
C12_Witness ==
    /\ pc = "parsed"
    /\ wrapper = <<"none">>
    /\ secret = <<"SharedAccessSignature", "=">> \o SasToken
                \o <<";", "AccountKey", "=", "k1">>
    /\ HasSigAndSv(lstrip(Value, {"?"}))
    /\ credential.account_key = <<"k1">>
    /\ credential.sas_token = SasToken

\* Every segment is key=value with a non-empty key, and no two segments
\* have the same key, whatever its letter case.
DistinctKeys(segments) ==
    /\ \A i \in 1..Len(segments) : FirstIn(segments[i], {"="}) > 1
    /\ \A i, j \in 1..Len(segments) :
           i # j => lower(partition(segments[i], "=").head)
                        # lower(partition(segments[j], "=").head)

\* The orders in which the segments of a list can be written.
Permuted(segments) ==
    { [i \in 1..Len(segments) |-> segments[f[i]]] :
        f \in Permutations(1..Len(segments)) }

\* The place of a key in the canonical order, 0 for a key that has none.
Rank(key) ==
    CASE lower(key) = <<"defaultendpointsprotocol">> -> 1
      [] lower(key) = <<"accountname">> -> 2
      [] lower(key) = <<"blobendpoint">> -> 3
      [] lower(key) = <<"accountkey">> -> 4
      [] lower(key) = <<"sharedaccesssignature">> -> 5
      [] lower(key) = <<"endpointsuffix">> -> 6
      [] lower(key) = <<"queueendpoint">> -> 7
      [] lower(key) = <<"tableendpoint">> -> 8
      [] lower(key) = <<"fileendpoint">> -> 9
      [] OTHER -> 0

\* The segments of the connection string are in the canonical order.
CanonicalOrder(connection_string) ==
    LET out == split_semicolon(connection_string)
    IN  /\ \A i \in 1..Len(out) : Rank(partition(out[i], "=").head) > 0
        /\ \A i, j \in 1..Len(out) :
               i < j => Rank(partition(out[i], "=").head)
                            < Rank(partition(out[j], "=").head)

\* C13: for a delimited connection string of two or more segments with
\* distinct keys, every order of the segments is parsed to the same
\* credential, and its connection_string lists protocol, account name, blob
\* endpoint, account key, SAS, endpoint suffix, then the queue, table and
\* file endpoints.
C13_OrderIndependent ==
    (/\ Parsed
     /\ wrapper = <<"none">>
     /\ Len(split_semicolon(secret)) >= 2
     /\ DistinctKeys(split_semicolon(secret))) =>
        /\ Returned(credential)
        /\ CanonicalOrder(credential.connection_string)
        /\ \A segments \in Permuted(split_semicolon(secret)) :
               parse_credential(join(<<";">>, segments), fallback) = credential

\* The input of the connection-string branch names the key.
InputHas(name) == parts_has(parts_of(re_split(Normalized, {";", "\n"})), name)

\* The segment key=value the input gives for the key (its last one).
InputSegment(name) ==
    Original(parts_of(re_split(Normalized, {";", "\n"})), name)

\* The segments of the returned connection string with the key.
OutputSegments(name) ==
    { split_semicolon(credential.connection_string)[i] :
        i \in { j \in 1..Len(split_semicolon(credential.connection_string)) :
                  lower(partition(
                      split_semicolon(credential.connection_string)[j],
                      "=").head) = <<name>> } }

DefaultProtocol == <<"DefaultEndpointsProtocol", "=", "https">>

DefaultSuffix == <<"EndpointSuffix", "=", "core.windows.net">>

\* What holds of the protocol, the suffix and the account name whether or
\* not a blob endpoint is given: a protocol or suffix of the input is kept
\* as it is, and AccountName is the fallback account exactly when the input
\* names no account.
KeptAsGiven ==
    /\ InputHas("defaultendpointsprotocol") =>
           OutputSegments("defaultendpointsprotocol")
               = {InputSegment("defaultendpointsprotocol")}
    /\ InputHas("endpointsuffix") =>
           OutputSegments("endpointsuffix") = {InputSegment("endpointsuffix")}
    /\ ~InputHas("accountname") =>
           OutputSegments("accountname")
               = {Pair(<<"AccountName">>, fallback)}
    /\ InputHas("accountname") =>
           OutputSegments("accountname")
               \subseteq {InputSegment("accountname")}

\* C14, as stated: both defaults are inserted only when the input gives no
\* BlobEndpoint (and no value of its own); given values are kept and the
\* fallback account is AccountName only when the input names none.
C14_DefaultsOnlyWithoutBlobEndpoint ==
    (Parsed /\ TakesConnectionBranch) =>
        /\ KeptAsGiven
        /\ ~InputHas("defaultendpointsprotocol") =>
               OutputSegments("defaultendpointsprotocol")
                   = IF InputHas("blobendpoint") THEN {}
                     ELSE {DefaultProtocol}
        /\ ~InputHas("endpointsuffix") =>
               OutputSegments("endpointsuffix")
                   = IF InputHas("blobendpoint") THEN {} ELSE {DefaultSuffix}

\* C14, amended: DefaultEndpointsProtocol=https is inserted whenever the
\* input gives no protocol, with or without a BlobEndpoint;
\* EndpointSuffix=core.windows.net is inserted only when the input gives
\* neither a suffix nor a BlobEndpoint; given values are kept and the
\* fallback account is AccountName only when the input names none.
C14_Defaults ==
    (Parsed /\ TakesConnectionBranch) =>
        /\ KeptAsGiven
        /\ ~InputHas("defaultendpointsprotocol") =>
               OutputSegments("defaultendpointsprotocol") = {DefaultProtocol}
        /\ ~InputHas("endpointsuffix") =>
               OutputSegments("endpointsuffix")
                   = IF InputHas("blobendpoint") THEN {} ELSE {DefaultSuffix}

\* A blob endpoint and no protocol: the protocol is defaulted, the suffix
\* is not.
C14_Witness ==
    /\ pc = "parsed"
    /\ wrapper = <<"none">>
    /\ TakesConnectionBranch
    /\ InputHas("blobendpoint")
    /\ ~InputHas("defaultendpointsprotocol")
    /\ ~InputHas("endpointsuffix")
    /\ OutputSegments("defaultendpointsprotocol") = {DefaultProtocol}
    /\ OutputSegments("endpointsuffix") = {}
    /\ OutputSegments("blobendpoint") = {InputSegment("blobendpoint")}

\* The connection string of a SAS credential.
SasConnectionString(account, endpoint, token) ==
    join(<<";">>,
         << <<"DefaultEndpointsProtocol", "=", "https">>,
            <<"AccountName", "=">> \o account,
            <<"BlobEndpoint", "=">> \o endpoint,
            <<"SharedAccessSignature", "=">> \o token >>)

\* https://<account>.blob.core.windows.net/
AccountEndpoint(account) ==
    <<"https", ":", "/", "/">> \o account \o <<".blob.core.windows.net", "/">>

\* The URL of the input as urlparse reads it: its scheme, host and query.
Url == parsed_sas_url(Value)

\* The input is a URL whose query holds sig= and sv=.
IsSasUrlInput == Url.scheme # <<>> /\ HasSigAndSv(Url.query)

\* The <name> of a host <name>.blob.core.windows.net, else the fallback.
UrlAccount ==
    IF /\ Len(Url.hostname) >= 2
       /\ Url.hostname[Len(Url.hostname)] = ".blob.core.windows.net"
       /\ \A i \in 1..(Len(Url.hostname) - 1) :
              Url.hostname[i] \notin {"."} \cup DottedAtoms
    THEN Take(Url.hostname, Len(Url.hostname) - 1)
    ELSE fallback

\* The blob endpoint of the host of the URL, of the account when the URL
\* has no host.
UrlEndpoint ==
    IF Url.hostname # <<>>
    THEN Url.scheme \o <<":", "/", "/">> \o Url.hostname \o <<"/">>
    ELSE AccountEndpoint(UrlAccount)

\* The input less its leading question marks.
BareToken == lstrip(Value, {"?"})

\* C15: an input that is not a development-storage text or a connection
\* string and is a URL whose query holds sig= and sv= returns the query as
\* sas_token, no account_key, the <name> of a <name>.blob.core.windows.net
\* host (else the fallback account) as storage_account, and a connection
\* string with that account, the blob endpoint of the host and the same
\* token; one that is no such URL and holds sig= and sv= returns the text
\* less its leading '?' as sas_token, no account_key, the fallback account
\* and the blob endpoint of that account.
C15_SasCredential ==
    (/\ Parsed
     /\ Value # <<>>
     /\ ~IsDevelopmentStorage(Normalized)
     /\ ~IsConnectionString(Normalized)) =>
        /\ IsSasUrlInput =>
               credential =
                   AzureCredential(
                       UrlAccount,
                       SasConnectionString(UrlAccount, UrlEndpoint, Url.query),
                       None, Url.query)
        /\ (~IsSasUrlInput /\ HasSigAndSv(BareToken)) =>
               credential =
                   AzureCredential(
                       fallback,
                       SasConnectionString(fallback, AccountEndpoint(fallback),
                                           BareToken),
                       None, BareToken)

\* The URL of a container of the account demo: the account is read from
\* the host, not taken from the fallback account.
C15_Witness ==
    /\ pc = "parsed"
    /\ wrapper = <<"none">>
    /\ IsSasUrlInput
    /\ Url.hostname = <<"demo", ".blob.core.windows.net">>
    /\ credential.storage_account = <<"demo">>
    /\ credential.storage_account # fallback
    /\ credential.sas_token = SasToken
    /\ credential.account_key = None

\* A line of a key: value block: a key with no '=' in it, then ':'.
IsKeyValueLine(line) ==
    /\ FirstIn(line, {":"}) > 1
    /\ ~Contains(partition(line, ":").head, "=")

\* A multi-line text that is not JSON and whose lines are all key: value.
IsKeyValueBlock(text) ==
    /\ Contains(text, "\n")
    /\ ~LooksJson(text)
    /\ \A i \in 1..Len(splitlines(text)) :
           IsKeyValueLine(strip(splitlines(text)[i], Whitespace))

\* The key=value of a line: the key, and the value less its inline '#'
\* comment and the quotes around it.
KeyValueOfLine(line) ==
    strip(partition(line, ":").head, Whitespace) \o <<"=">>
    \o strip(strip(partition(partition(line, ":").tail, "#").head,
                   Whitespace),
             {"\"", "'"})

\* The semicolon-joined key=value connection string of a block.
JoinedBlock(text) ==
    join(<<";">>,
         [i \in 1..Len(splitlines(text)) |->
              KeyValueOfLine(strip(splitlines(text)[i], Whitespace))])

\* C16: a multi-line, non-JSON input of key: value lines is parsed to the
\* credential of the semicolon-joined key=value connection string made of
\* its lines, each value less its inline '#' comment and its quotes,
\* whatever the values hold ('=' padding included).
C16_BlockEquivalent ==
    (Parsed /\ Value # <<>> /\ IsKeyValueBlock(Normalized)) =>
        credential = parse_credential(JoinedBlock(Normalized), fallback)

\* Characters of the base64 alphabet only, '=' only as trailing padding,
\* 15 characters or more.
IsBase64Key(text) ==
    /\ text # <<>>
    /\ \A i \in 1..Len(text) :
           IsAlnum(text[i]) \/ text[i] \in {"+", "/", "="}
    /\ \A i \in 1..(Len(text) - 1) : text[i] = "=" => text[i + 1] = "="
    /\ CharLen(text) >= 15

\* The credential of a raw account key.
KeyCredential(key) ==
    AzureCredential(
        fallback,
        join(<<";">>,
             << <<"DefaultEndpointsProtocol", "=", "https">>,
                <<"AccountName", "=">> \o fallback,
                <<"AccountKey", "=">> \o key,
                <<"EndpointSuffix", "=", "core.windows.net">> >>),
        key, None)

\* C17, as stated: every input of base64-alphabet characters, 15 or more,
\* with '=' only as trailing padding, in one pair of quotes or in none, is
\* returned as a raw account key of the fallback account.
C17_RawAccountKey ==
    (Parsed /\ IsBase64Key(Value)) => credential = KeyCredential(Value)

\* C17, amended: such an input is returned as a raw account key of the
\* fallback account unless it is a connection string, that is unless a
\* recognised key name stands right before its '=' padding.
C17_RawAccountKeyUnlessConnectionString ==
    (Parsed /\ IsBase64Key(Value) /\ ~IsConnectionString(Normalized)) =>
        credential = KeyCredential(Value)

\* A padded key in a pair of quotes: the key is the text inside the quotes.
C17_Witness ==
    /\ pc = "parsed"
    /\ wrapper = <<"quoted">>
    /\ secret = Key \o <<"=">>
    /\ IsBase64Key(Value)
    /\ credential.account_key = Key \o <<"=">>
    /\ credential.sas_token = None
    /\ credential.storage_account = fallback

\* The literal UseDevelopmentStorage=true, in any letter case.
IsDevelopmentLiteral(text) ==
    lower(text) = <<"usedevelopmentstorage", "=", "true">>

\* The input was passed through by the development-storage branch.
PassedThrough ==
    credential = parse_development_storage(Normalized, fallback)

\* C18: the literal UseDevelopmentStorage=true, in any letter case, is
\* passed through: connection_string is the input, storage_account the
\* fallback account, account_key and sas_token absent; no other input is
\* passed through by this branch.
C18_DevelopmentStorageLiteral ==
    (Parsed /\ Value # <<>>) =>
        /\ IsDevelopmentLiteral(Normalized) =>
               credential = AzureCredential(fallback, Normalized, None, None)
        /\ PassedThrough => IsDevelopmentLiteral(Normalized)

\* The message of the error with a given preview: the length, the digest
\* prefix, the preview and the heuristic summary of the text.
MessageWith(text, preview) ==
    <<"Unable to detect credential type. Provide an account key, SAS token, or connection string. ",
      "(len=", ToString(CharLen(text)), ", fingerprint=">>
    \o fingerprint_of(text)
    \o <<", preview=">> \o preview
    \o <<", ">> \o _heuristic_summary(text) \o <<")">>

\* A message less its fingerprint, for the message of the text.
WithoutFingerprint(message, text) ==
    Take(message, 4) \o Drop(message, 4 + Len(fingerprint_of(text)))

\* The first n and the last n characters of a text.
FirstChars(text, n) ==
    IF CharLen(text) <= n THEN Chars(text) ELSE Take(Chars(text), n)

LastChars(text, n) ==
    IF CharLen(text) <= n THEN Chars(text)
    ELSE Drop(Chars(text), CharLen(text) - n)

\* Two texts of the same length, first 4 and last 2 characters and
\* heuristics.
Alike(a, b) ==
    /\ CharLen(a) = CharLen(b)
    /\ FirstChars(a, 4) = FirstChars(b, 4)
    /\ LastChars(a, 2) = LastChars(b, 2)
    /\ _heuristic_summary(a) = _heuristic_summary(b)

\* The previews that show at most the first 4 and the last 2 characters of
\* a text: asterisks only, or those characters around an ellipsis.
RedactedPreviews(text) ==
    { Asterisks(n) : n \in 0..CharLen(text) }
    \cup (IF CharLen(text) <= 6 THEN {}
          ELSE { FirstChars(text, 4) \o <<Ellipsis>> \o LastChars(text, 2) })

\* C19: an empty, blank or quotes-only input raises "Credential must not be
\* empty"; any other input no branch accepts raises a ValueError whose
\* message carries the length, the digest prefix, the heuristic summary
\* and a preview that shows at most the first 4 and last 2 characters
\* (asterisks only for 6 characters or fewer), so that the messages of two
\* rejected inputs alike in length, first 4 and last 2 characters and
\* heuristics differ by the fingerprint only.
C19_RedactedError ==
    (Parsed /\ ~Returned(credential)) =>
        IF Value = <<>>
        THEN credential.error = <<"Credential must not be empty">>
        ELSE /\ \E preview \in RedactedPreviews(Normalized) :
                    credential.error = MessageWith(Normalized, preview)
             /\ \A peer \in Secrets :
                    (/\ Alike(Normalized, replace_cr(unquote(peer)))
                     /\ ~Returned(parse_credential(peer, fallback))) =>
                        WithoutFingerprint(credential.error, Normalized)
                            = WithoutFingerprint(
                                  parse_credential(peer, fallback).error,
                                  replace_cr(unquote(peer)))

----------------------------------------------------------------------------
(* Host rewriting and the stale-reference scan as a state machine: main()  *)
(* calls update_manifest_hosts and then ensure_hosts_rotated; the scan can *)
(* also run on a tree that was not rewritten.                              *)

\* Largest number of pieces of the generated text of a manifest.
MaxPieces == 2

IpA == <<"203", ".", "0", ".", "113", ".", "8">>

IpB == <<"192", ".", "0", ".", "2", ".", "4">>

\* An address whose first part has four digits.
IpLong == <<"1234", ".", "0", ".", "0", ".", "1">>

\* What the text of a manifest is made of: host names, a word character, a
\* blank, and a host name cut in two.
Pieces ==
    { NipHost("kc", IpA), NipHost("kc", IpB), NipHost("mp", IpB),
      NipHost("argocd", IpLong), <<"x">>, <<" ">>,
      <<"kc", ".", "192", ".", "0", ".", "2">>,
      <<".", "4", ".", "nip", ".", "io">> }

Texts ==
    { join(<<>>, pieces) :
        pieces \in UNION { [1..n -> Pieces] : n \in 0..MaxPieces } }

ManifestA == <<"a.yaml">>

ManifestB == <<"gitops/b.yaml">>

ManifestC == <<"gitops/sub/c.yaml">>

\* The working tree: one manifest of generated text, two of fixed text.
Tree(text) ==
    (ManifestA :> text)
    @@ (ManifestB :> <<"host", " ">> \o NipHost("mp", IpB))
    @@ (ManifestC :> NipHost("argocd", IpA) \o <<" ">> \o NipHost("kc", IpB))

ManifestLists ==
    { <<ManifestA>>,
      <<ManifestA, ManifestB, ManifestC>>,
      <<None, <<"missing.yaml">>, ManifestA>>,
      <<ManifestB, <<"gitops">>, ManifestA>> }

ValidationLists ==
    { << <<"gitops">> >>,
      <<ManifestA, <<"gitops">> >>,
      <<None, <<"missing.yaml">>, <<"gitops/sub">>, ManifestA>> }

InitHosts ==
    /\ pc = "start"
    /\ result = Running
    /\ ip_value \in {IpA, IpB}
    /\ files \in {Tree(text) : text \in Texts}
    /\ original = files
    /\ manifest_files \in ManifestLists
    /\ validation_paths \in ValidationLists \cup {manifest_files}
    /\ stale = <<>>
    /\ CredentialIdle /\ ResolveIdle /\ AccessIdle
    /\ MainIdle /\ ToolIdle

\* main(): update_manifest_hosts(manifest_files, build_hosts(ip_value))
UpdateManifestHosts ==
    /\ pc = "start"
    /\ LET updated ==
               update_manifest_hosts(files, manifest_files,
                                     build_hosts(ip_value))
       IN  /\ files' = updated.files
           /\ pc' = IF updated.error = None THEN "updated" ELSE "failed"
           /\ result' = IF updated.error = None THEN result
                        ELSE Raise(updated.error[1], <<>>)
    /\ UNCHANGED <<ip_value, original, manifest_files, validation_paths,
                   stale, credential_vars, resolve_vars, access_vars,
                   main_vars, tool_vars>>

\* ensure_hosts_rotated(validation_paths, ip_value)
EnsureHostsRotated ==
    /\ pc \in {"start", "updated"}
    /\ \E listing \in Listings(files) :
           /\ stale' = discover_stale_hosts(files, validation_paths, ip_value,
                                            listing)
           /\ result' = ensure_hosts_rotated(stale')
    /\ pc' = IF pc = "start" THEN "scanned" ELSE "rotated"
    /\ UNCHANGED <<ip_value, files, original, manifest_files,
                   validation_paths, credential_vars, resolve_vars,
                   access_vars,
                   main_vars, tool_vars>>

NextHosts == UpdateManifestHosts \/ EnsureHostsRotated

SpecHosts == InitHosts /\ [][NextHosts]_vars

----------------------------------------------------------------------------
(* Claims about the host rewriting and the scan.                           *)

\* C3: after update_manifest_hosts(files, build_hosts(ip)) for an IPv4
\* address ip, discover_stale_hosts over the same files returns the empty
\* list and ensure_hosts_rotated does not raise.
C3_RewrittenHostsNotStale ==
    (pc = "rotated" /\ validation_paths = manifest_files /\ IsIPv4(ip_value))
        => (stale = <<>> /\ result = Return(None))

\* A rewritten tree whose manifests held a host name of another address
\* that the scan matches.
C3_Witness ==
    /\ pc = "rotated"
    /\ validation_paths = manifest_files
    /\ IsIPv4(ip_value)
    /\ files # original
    /\ \E listing \in Listings(original) :
           discover_stale_hosts(original, validation_paths, ip_value,
                                listing) # <<>>

\* The files a scan of the validation paths reads: the given files and the
\* files below the given directories, at any depth.
ScannedFiles ==
    { f \in DOMAIN files :
        \E k \in DOMAIN validation_paths :
            \E depth \in 0..2 :
                \/ depth = 0 /\ f = validation_paths[k]
                \/ depth = 1 /\ f \in DOMAIN Parent
                             /\ Parent[f] = validation_paths[k]
                \/ depth = 2 /\ f \in DOMAIN Parent
                             /\ Parent[f] \in DOMAIN Parent
                             /\ Parent[Parent[f]] = validation_paths[k] }

\* The address a host name <prefix>.<ip>.nip.io embeds.
EmbeddedIp(hostname) == SubSeq(hostname, 3, Len(hostname) - 4)

\* The occurrences of a kc, mp or argocd nip.io host name in the scanned
\* files whose embedded address is not ip_value, with their file.
StaleOccurrences ==
    UNION { { <<f, MatchGroup0(files[f], i)>> :
                i \in { j \in 1..Len(files[f]) :
                          /\ HostPatternMatchAt(files[f], j)
                          /\ EmbeddedIp(MatchGroup0(files[f], j)) # ip_value } } :
            f \in ScannedFiles }

\* C4: discover_stale_hosts returns exactly the (file, host name) pairs of
\* the kc, mp and argocd nip.io occurrences whose embedded address differs
\* from the expected one, over the given files and the files found
\* recursively under the given directories; it never reports an occurrence
\* of the expected address, and ensure_hosts_rotated raises RuntimeError if
\* and only if the list is not empty.
C4_StaleExactly ==
    pc \in {"scanned", "rotated"} =>
        /\ {stale[k] : k \in DOMAIN stale} = StaleOccurrences
        /\ \A k \in DOMAIN stale : EmbeddedIp(stale[k][2]) # ip_value
        /\ ((result.kind = "raise" /\ result.type = "RuntimeError")
               <=> (stale # <<>>))
        /\ result.kind \in {"raise", "return"}

\* A scan that reports references from a given file and from a file of a
\* nested directory, and passes over the host name of the expected address
\* in a third file.
C4_Witness ==
    /\ pc = "scanned"
    /\ result.kind = "raise"
    /\ \E k \in DOMAIN stale : stale[k][1] = ManifestA
    /\ \E k \in DOMAIN stale : stale[k][1] = ManifestC
    /\ \A k \in DOMAIN stale : stale[k][1] # ManifestB
    /\ \E i \in 1..Len(files[ManifestB]) :
           /\ HostPatternMatchAt(files[ManifestB], i)
           /\ MatchGroupIp(files[ManifestB], i) = ip_value

----------------------------------------------------------------------------
(* resolve_ingress_ip as a state machine.  Each kubectl query and each     *)
(* DNS lookup is a step; what kubectl prints and whether a name resolves   *)
(* is chosen when the call is made.                                        *)

\* Largest number of addresses, and of host names, kubectl reports.
MaxCandidates == 2

Ip1 == <<"198", ".", "51", ".", "100", ".", "7">>

Ip2 == <<"203", ".", "0", ".", "113", ".", "10">>

\* What the load balancer status lists as an address.
IpCandidates == {Ip1, Ip2, <<"pending">>, <<"1", ".", "2", ".", "256", ".", "4">>}

HostnameCandidates == { <<"lb", ".", "example">>, <<"alt", ".", "example">> }

\* The jsonpath output of a list: its items joined by a blank.
Outputs(items) ==
    { join(<<" ">>, list) :
        list \in UNION { [1..n -> items] : n \in 0..MaxCandidates } }

\* A finished kubectl process.
Procs(outputs) ==
    { [returncode |-> 1, stdout |-> <<>>] }
    \cup { [returncode |-> 0, stdout |-> out] : out \in outputs }

IpProcs ==
    Procs(Outputs(IpCandidates)
          \cup { Ip1 \o <<",", " ">> \o Ip2 \o <<"\n">>,
                 <<" ">> \o Ip2 \o <<",">> \o Ip1 })

HostnameProcs == Procs(Outputs(HostnameCandidates))

TypeProcs == Procs({ <<>>, <<"LoadBalancer">> })

StatusProcs == Procs({ <<>>, <<"{", "}">> })

\* What gethostbyname returns.
Resolved == <<"20", ".", "50", ".", "1", ".", "2">>

InitResolve ==
    /\ pc = "start"
    /\ result = Running
    /\ ip_value = None
    /\ explicit_ip \in {None, <<>>, Resolved, <<"1", ".", "2", ".", "256", ".", "4">>}
    /\ explicit_hostname \in {None, <<"ingress", ".", "example">>}
    /\ kubectl_calls = <<>>
    /\ ip_values = <<>>
    /\ hostname_values = <<>>
    /\ hostname_candidates = <<>>
    /\ lookups = <<>>
    /\ CredentialIdle /\ HostsIdle /\ AccessIdle
    /\ MainIdle /\ ToolIdle

\* An entry of the log of kubectl queries.
Called(jsonpath, proc) == <<jsonpath, proc>>

\* if explicit_ip: ipaddress.ip_address(explicit_ip); return explicit_ip
ReturnExplicitIp ==
    /\ pc = "start"
    /\ Truthy(explicit_ip)
    /\ result' = IF ip_address(explicit_ip) THEN Return(explicit_ip)
                 ELSE Raise("ValueError", explicit_ip)
    /\ ip_value' = IF ip_address(explicit_ip) THEN explicit_ip ELSE ip_value
    /\ pc' = "done"
    /\ UNCHANGED <<credential_vars, hosts_vars, resolve_vars, access_vars,
                   main_vars, tool_vars>>

\* The query of the reported addresses and the loop over them, latest first.
QueryIps ==
    /\ pc = "start"
    /\ ~Truthy(explicit_ip)
    /\ \E proc \in IpProcs :
           /\ kubectl_calls' = Append(kubectl_calls, Called(IpPath, proc))
           /\ ip_values' = query_or_empty(IpPath, proc)
    /\ IF latest_candidate(_split_candidates(ip_values')) # None
       THEN /\ result' = Return(latest_candidate(_split_candidates(ip_values')))
            /\ ip_value' = latest_candidate(_split_candidates(ip_values'))
            /\ pc' = "done"
       ELSE /\ pc' = "hostnames"
            /\ UNCHANGED <<result, ip_value>>
    /\ UNCHANGED <<explicit_ip, explicit_hostname, hostname_values,
                   hostname_candidates, lookups, credential_vars, hosts_vars,
                   access_vars,
                   main_vars, tool_vars>>

\* The query of the reported host names.
QueryHostnames ==
    /\ pc = "hostnames"
    /\ \E proc \in HostnameProcs :
           /\ kubectl_calls' = Append(kubectl_calls, Called(HostnamePath, proc))
           /\ hostname_values' = query_or_empty(HostnamePath, proc)
    /\ hostname_candidates' =
           collect_hostnames(explicit_hostname, hostname_values')
    /\ pc' = "lookup"
    /\ UNCHANGED <<result, ip_value, explicit_ip, explicit_hostname,
                   ip_values, lookups, credential_vars, hosts_vars,
                   access_vars,
                   main_vars, tool_vars>>

\* One turn of the loop: socket.gethostbyname(hostname) returns an address
\* or raises OSError.
LookupHostname ==
    /\ pc = "lookup"
    /\ hostname_candidates # <<>>
    /\ \E resolves \in BOOLEAN :
           /\ lookups' = Append(lookups, <<Head(hostname_candidates), resolves>>)
           /\ IF resolves
              THEN /\ result' = Return(Resolved)
                   /\ ip_value' = Resolved
                   /\ pc' = "done"
                   /\ UNCHANGED hostname_candidates
              ELSE /\ hostname_candidates' = Tail(hostname_candidates)
                   /\ UNCHANGED <<result, ip_value, pc>>
    /\ UNCHANGED <<explicit_ip, explicit_hostname, kubectl_calls, ip_values,
                   hostname_values, credential_vars, hosts_vars, access_vars,
                   main_vars, tool_vars>>

\* No address: the two diagnostic queries and the RuntimeError.
RaiseNoAddress ==
    /\ pc = "lookup"
    /\ hostname_candidates = <<>>
    /\ \E type_proc \in TypeProcs, status_proc \in StatusProcs :
           /\ kubectl_calls' =
                  kubectl_calls \o <<Called(TypePath, type_proc),
                                     Called(StatusPath, status_proc)>>
           /\ result' = no_address_error(type_proc, status_proc)
    /\ pc' = "done"
    /\ UNCHANGED <<ip_value, explicit_ip, explicit_hostname, ip_values,
                   hostname_values, hostname_candidates, lookups,
                   credential_vars, hosts_vars, access_vars,
                   main_vars, tool_vars>>

NextResolve ==
    \/ ReturnExplicitIp
    \/ QueryIps
    \/ QueryHostnames
    \/ LookupHostname
    \/ RaiseNoAddress

SpecResolve == InitResolve /\ [][NextResolve]_vars

----------------------------------------------------------------------------
(* Claims about resolve_ingress_ip.                                        *)

\* The addresses the load balancer status listed, in order.
StatusCandidates == _split_candidates(ip_values)

\* list[k] is the last item of list that is a syntactically valid address.
IsLastValid(list, k) ==
    /\ k \in DOMAIN list
    /\ ip_address(list[k])
    /\ \A j \in (k + 1)..Len(list) : ~ip_address(list[j])

\* C5: with no explicit address, when kubectl reports whitespace- or
\* comma-separated candidates of which one is a valid address,
\* resolve_ingress_ip returns the last-listed valid one, whatever host names
\* are given or reported: none is queried or looked up.
C5_LastValidCandidate ==
    (pc # "start" /\ ~Truthy(explicit_ip)
     /\ \E k \in DOMAIN StatusCandidates : ip_address(StatusCandidates[k])) =>
        /\ pc = "done"
        /\ result.kind = "return"
        /\ \E k \in DOMAIN StatusCandidates :
               /\ IsLastValid(StatusCandidates, k)
               /\ result.value = StatusCandidates[k]
        /\ lookups = <<>>
        /\ Len(kubectl_calls) = 1

\* Two valid addresses were listed, an explicit host name was given, and
\* the second address was returned.
C5_Witness ==
    /\ pc = "done"
    /\ ~Truthy(explicit_ip)
    /\ Truthy(explicit_hostname)
    /\ StatusCandidates = <<Ip1, Ip2>>
    /\ result = Return(Ip2)

\* The host names to look up, in the order of the precedence: the explicit
\* one, then the reported ones as listed.
HostnamesInOrder ==
    (IF explicit_hostname # None /\ explicit_hostname # <<>>
     THEN <<explicit_hostname>> ELSE <<>>)
    \o _split_candidates(hostname_values)

\* text holds part as a contiguous piece
Carries(text, part) ==
    \E i \in 1..(Len(text) - Len(part) + 1) :
        SubSeq(text, i, i + Len(part) - 1) = part

\* What a kubectl query that exited with status 0 printed, stripped.
Printed(call) == strip(call[2].stdout, Whitespace)

Failed(call) == call[2].returncode # 0

\* C6: the precedence of resolve_ingress_ip.  An explicit address is
\* validated and returned with no kubectl call.  Otherwise the last valid
\* reported address is returned.  Otherwise the host names are looked up,
\* the explicit one first and then the reported ones as listed, and the
\* address of the first that resolves is returned.  A kubectl failure counts
\* as an empty answer.  When nothing yields an address a RuntimeError is
\* raised that carries the service type and the load balancer status when
\* the queries gave them.
C6_Precedence ==
    /\ pc = "start" => kubectl_calls = <<>>
    /\ (pc = "done" /\ Truthy(explicit_ip)) =>
           /\ kubectl_calls = <<>>
           /\ lookups = <<>>
           /\ result = IF ip_address(explicit_ip) THEN Return(explicit_ip)
                       ELSE Raise("ValueError", explicit_ip)
    /\ (pc = "done" /\ ~Truthy(explicit_ip)) =>
           /\ kubectl_calls[1][1] = IpPath
           /\ Failed(kubectl_calls[1]) => ip_values = <<>>
           /\ result.kind \in {"return", "raise"}
           /\ result.kind = "raise" => result.type = "RuntimeError"
           /\ (\E k \in DOMAIN StatusCandidates : IsLastValid(StatusCandidates, k))
                  => /\ result.kind = "return"
                     /\ IsLastValid(StatusCandidates,
                            CHOOSE k \in DOMAIN StatusCandidates :
                                result.value = StatusCandidates[k]
                                /\ IsLastValid(StatusCandidates, k))
                     /\ Len(kubectl_calls) = 1
           /\ (\A k \in DOMAIN StatusCandidates : ~ip_address(StatusCandidates[k]))
                  => /\ Len(kubectl_calls) >= 2
                     /\ kubectl_calls[2][1] = HostnamePath
                     /\ Failed(kubectl_calls[2]) => hostname_values = <<>>
                     /\ Len(lookups) <= Len(HostnamesInOrder)
                     /\ \A k \in DOMAIN lookups :
                            lookups[k][1] = HostnamesInOrder[k]
                     /\ \A k \in 1..(Len(lookups) - 1) : ~lookups[k][2]
                     /\ result.kind = "return" =>
                            /\ lookups # <<>>
                            /\ lookups[Len(lookups)][2]
                            /\ result.value = Resolved
                            /\ Len(kubectl_calls) = 2
                     /\ result.kind = "raise" =>
                            /\ Len(lookups) = Len(HostnamesInOrder)
                            /\ \A k \in DOMAIN lookups : ~lookups[k][2]
                            /\ Len(kubectl_calls) = 4
                            /\ kubectl_calls[3][1] = TypePath
                            /\ kubectl_calls[4][1] = StatusPath
                            /\ (~Failed(kubectl_calls[3])
                                /\ Printed(kubectl_calls[3]) # <<>>) =>
                                   Carries(result.message,
                                           <<" Service type: ">>
                                           \o Printed(kubectl_calls[3]))
                            /\ (~Failed(kubectl_calls[4])
                                /\ Printed(kubectl_calls[4]) # <<>>) =>
                                   Carries(result.message,
                                           <<" Current loadBalancer status: ">>
                                           \o Printed(kubectl_calls[4]))

\* The address query failed, the explicit host name and the two reported
\* ones did not resolve, and the RuntimeError carries the service type and
\* the load balancer status.
C6_Witness ==
    /\ pc = "done"
    /\ result.kind = "raise"
    /\ Len(kubectl_calls) = 4
    /\ Failed(kubectl_calls[1])
    /\ Len(lookups) = 3
    /\ lookups[1][1] = explicit_hostname
    /\ Carries(result.message, <<" Service type: ", "LoadBalancer">>)
    /\ Carries(result.message, <<" Current loadBalancer status: ", "{", "}">>)

----------------------------------------------------------------------------
(* ensure_ingress_accessible as a state machine.  Each connection attempt  *)
(* is a step; whether the port accepts is chosen when it is tried.         *)

\* Largest number of candidate ports.
MaxPorts == 2

\* The default of the ports parameter.
DefaultPorts == <<80, 443>>

PortLists ==
    {DefaultPorts}
    \cup UNION { [1..n -> {80, 443, 8443}] : n \in 0..MaxPorts }

\* Addresses of each class, and public ones.
Addresses ==
    { <<"10", ".", "0", ".", "0", ".", "4">>,
      <<"172", ".", "20", ".", "0", ".", "1">>,
      <<"127", ".", "0", ".", "0", ".", "1">>,
      <<"169", ".", "254", ".", "1", ".", "1">>,
      <<"224", ".", "0", ".", "0", ".", "1">>,
      <<"0", ".", "0", ".", "0", ".", "0">>,
      <<"203", ".", "0", ".", "113", ".", "10">>,
      <<"2001:db8::1">>,
      <<"20", ".", "50", ".", "1", ".", "2">>,
      <<"172", ".", "32", ".", "0", ".", "1">>,
      <<"8", ".", "8", ".", "8", ".", "8">>,
      <<"1", ".", "2", ".", "256", ".", "4">> }

\* main(): raise_on_error=not args.skip_reachability_check
raise_on_error == ~skip_reachability_check

InitAccess ==
    /\ pc = "start"
    /\ result = Running
    /\ ip_value \in Addresses
    /\ ports \in PortLists
    /\ skip_reachability_check \in BOOLEAN
    /\ remaining = <<>>
    /\ attempts = <<>>
    /\ connection_errors = <<>>
    /\ stderr = <<>>
    /\ CredentialIdle /\ HostsIdle /\ ResolveIdle
    /\ MainIdle /\ ToolIdle

\* ip_obj = ipaddress.ip_address(ip) and the rejection of a non-public one
CheckAddress ==
    /\ pc = "start"
    /\ IF ~ip_address(ip_value)
       THEN /\ result' = Raise("ValueError", ip_value)
            /\ pc' = "done"
            /\ UNCHANGED remaining
       ELSE IF IsNonPublic(ip_value)
       THEN /\ result' = non_public_error(ip_value)
            /\ pc' = "done"
            /\ UNCHANGED remaining
       ELSE /\ remaining' = ports
            /\ pc' = "connect"
            /\ UNCHANGED result
    /\ UNCHANGED <<ip_value, ports, skip_reachability_check, attempts,
                   connection_errors, stderr, credential_vars, hosts_vars,
                   resolve_vars,
                   main_vars, tool_vars>>

\* One turn of the loop: socket.create_connection((ip, port), timeout=5)
\* connects, or raises OSError.
Connect ==
    /\ pc = "connect"
    /\ remaining # <<>>
    /\ \E accepted \in BOOLEAN :
           /\ attempts' = Append(attempts, <<Head(remaining), accepted>>)
           /\ IF accepted
              THEN /\ result' = Return(None)
                   /\ pc' = "done"
                   /\ UNCHANGED <<remaining, connection_errors>>
              ELSE /\ connection_errors' =
                          record_error(connection_errors, Head(remaining))
                   /\ remaining' = Tail(remaining)
                   /\ UNCHANGED <<result, pc>>
    /\ UNCHANGED <<ip_value, ports, skip_reachability_check, stderr,
                   credential_vars, hosts_vars, resolve_vars,
                   main_vars, tool_vars>>

\* No port accepted: the RuntimeError, or the warning.
ReportUnreachable ==
    /\ pc = "connect"
    /\ remaining = <<>>
    /\ result' = unreachable(raise_on_error,
                     unreachable_message(ip_value, ports, connection_errors))
    /\ stderr' = stderr \o unreachable_warning(raise_on_error,
                     unreachable_message(ip_value, ports, connection_errors))
    /\ pc' = "done"
    /\ UNCHANGED <<ip_value, ports, skip_reachability_check, remaining,
                   attempts, connection_errors, credential_vars, hosts_vars,
                   resolve_vars,
                   main_vars, tool_vars>>

NextAccess == CheckAddress \/ Connect \/ ReportUnreachable

SpecAccess == InitAccess /\ [][NextAccess]_vars

----------------------------------------------------------------------------
(* Claims about ensure_ingress_accessible.                                 *)

\* The address is valid and of one of the five rejected classes.
InRejectedClass ==
    /\ ip_address(ip_value)
    /\ \/ is_private(ip_value) \/ is_loopback(ip_value)
       \/ is_link_local(ip_value) \/ is_multicast(ip_value)
       \/ is_unspecified(ip_value)

NonPublicRejection ==
    /\ result.kind = "raise"
    /\ result.type = "RuntimeError"
    /\ result.message[1] =
           "Ingress controller resolved to a non-public IP address"

\* C7: for a private, loopback, link-local, multicast or unspecified
\* address ensure_ingress_accessible raises the "non-public IP"
\* RuntimeError, whatever the ports, and attempts no connection.
C7_NonPublicRejected ==
    (pc # "start" /\ InRejectedClass) =>
        /\ pc = "done"
        /\ NonPublicRejection
        /\ attempts = <<>>

\* The private address 10.0.0.4 with the default ports was rejected.
C7_Witness ==
    /\ pc = "done"
    /\ ip_value = <<"10", ".", "0", ".", "0", ".", "4">>
    /\ ports = DefaultPorts
    /\ NonPublicRejection

UnreachableError ==
    /\ result.kind = "raise"
    /\ result.type = "RuntimeError"
    /\ result.message[1] = "Unable to reach the ingress load balancer at"

\* C8: for a public address the ports are tried in order up to the first
\* that accepts a connection, and the call then returns; when every port
\* fails it raises "Unable to reach" if raise_on_error, else prints a
\* warning and returns.  The skip flag does not change the rejection of a
\* non-public address.
C8_PortsInOrder ==
    /\ (pc # "start" /\ ip_address(ip_value) /\ ~InRejectedClass) =>
           /\ Len(attempts) <= Len(ports)
           /\ \A k \in DOMAIN attempts : attempts[k][1] = ports[k]
           /\ \A k \in 1..(Len(attempts) - 1) : ~attempts[k][2]
           /\ (attempts # <<>> /\ attempts[Len(attempts)][2]) =>
                  (pc = "done" /\ result = Return(None) /\ stderr = <<>>)
           /\ (pc = "done" /\ \A k \in DOMAIN attempts : ~attempts[k][2]) =>
                  /\ Len(attempts) = Len(ports)
                  /\ ~skip_reachability_check =>
                         (UnreachableError /\ stderr = <<>>)
                  /\ skip_reachability_check =>
                         (result = Return(None) /\ Len(stderr) = 1)
    /\ (pc = "done" /\ skip_reachability_check /\ InRejectedClass) =>
           (NonPublicRejection /\ stderr = <<>>)

\* With the skip flag set, ports 80 and 443 of a public address refused the
\* connection, in that order: a warning was printed and the call returned.
C8_Witness ==
    /\ pc = "done"
    /\ skip_reachability_check
    /\ ~InRejectedClass
    /\ attempts = << <<80, FALSE>>, <<443, FALSE>> >>
    /\ result = Return(None)
    /\ Len(stderr) = 1

----------------------------------------------------------------------------
(* build_hosts as a state machine.                                         *)

\* The most labels of an address text.
MaxLabels == 4

\* The labels address texts are made of: octets, a number above 255, a
\* numeral with a leading zero and a word.
Labels == {"0", "10", "203", "256", "08", "x"}

\* "." .join(labels)
RECURSIVE Dotted(_)
Dotted(labels) ==
    IF Len(labels) = 1 THEN <<labels[1]>>
    ELSE <<labels[1], ".">> \o Dotted(Tail(labels))

\* The texts build_hosts is called with.
AddressTexts ==
    { Dotted(labels) :
        labels \in UNION { [1..n -> Labels] : n \in 1..MaxLabels } }
    \cup { <<literal>> : literal \in IPv6Literals }

InitBuild ==
    /\ pc = "start"
    /\ result = Running
    /\ ip_value \in AddressTexts
    /\ CredentialIdle /\ HostsIdle /\ ResolveIdle /\ AccessIdle
    /\ MainIdle /\ ToolIdle

\* hosts = build_hosts(ip_value)
BuildHosts ==
    /\ pc = "start"
    /\ result' = With(build_hosts(ip_value), LAMBDA hosts :
                     IF hosts.error = None
                     THEN Return([keycloak |-> hosts.keycloak,
                                  midpoint |-> hosts.midpoint,
                                  argocd |-> hosts.argocd])
                     ELSE Raise("ValueError", ip_value))
    /\ pc' = "built"
    /\ UNCHANGED <<ip_value, credential_vars, hosts_vars, resolve_vars,
                   access_vars,
                   main_vars, tool_vars>>

NextBuild == BuildHosts

SpecBuild == InitBuild /\ [][NextBuild]_vars

----------------------------------------------------------------------------
(* Claims about build_hosts.                                               *)

\* Four decimal numbers of at most 255, without leading zeros, separated
\* by dots; or an IPv6 literal.
ValidAddress(ip) ==
    \/ /\ Len(ip) = 7
       /\ \A i \in {2, 4, 6} : ip[i] = "."
       /\ \A i \in {1, 3, 5, 7} : IsOctet(ip[i])
    \/ \E literal \in IPv6Literals : ip = <<literal>>

\* C20: for a valid address ip, build_hosts(ip) returns kc.<ip>.nip.io,
\* mp.<ip>.nip.io and argocd.<ip>.nip.io, with ip as it was given; for any
\* other text it raises ValueError and returns no Hosts.
C20_BuildHosts ==
    (pc = "built") =>
        IF ValidAddress(ip_value)
        THEN result = Return(
                 [keycloak |-> <<"kc", ".">> \o ip_value
                                   \o <<".", "nip", ".", "io">>,
                  midpoint |-> <<"mp", ".">> \o ip_value
                                   \o <<".", "nip", ".", "io">>,
                  argocd |-> <<"argocd", ".">> \o ip_value
                                 \o <<".", "nip", ".", "io">>])
        ELSE /\ result.kind = "raise"
             /\ result.type = "ValueError"

\* A valid address has been built into hosts.
C20_Witness ==
    /\ pc = "built"
    /\ ip_value = <<"203", ".", "0", ".", "10", ".", "0">>
    /\ result.kind = "return"
    /\ result.value.keycloak
           = <<"kc", ".", "203", ".", "0", ".", "10", ".", "0", ".", "nip",
               ".", "io">>

----------------------------------------------------------------------------
(* write_params and read_ingress_class as a state machine.                 *)

\* DEFAULT_PARAMS_FILE
ParamsPath == <<"gitops/apps/iam/params.env">>

\* The ingress classes written: names, the empty text, names with blanks
\* around and within, and texts with "=" and with a line break.
Classes ==
    { <<"nginx">>, <<"custom">>, <<>>,
      <<"nginx", " ">>, <<" ", "traefik">>, <<"a", " ", "b">>,
      <<"a", "=", "b">>, <<"a", "\n", "b">>,
      <<"x", "\n", "ingressClass", "=", "y">> }

\* The params file before the call: missing, without a class, with one.
ParamsTrees ==
    { <<>>,
      (ParamsPath :> <<"keycloakHost", "=", "old", "\n">>),
      (ParamsPath :> <<"ingressClass", "=", "traefik", "\n">>) }

InitParams ==
    /\ pc = "start"
    /\ result = Running
    /\ ip_value \in {Ip1, Ip2, Resolved, <<"2001:db8::1">>}
    /\ files \in ParamsTrees
    /\ original = files
    /\ params_file = ParamsPath
    /\ ingress_class \in Classes
    /\ manifest_files = <<>>
    /\ validation_paths = <<>>
    /\ stale = <<>>
    /\ ingress_class_arg = None
    /\ print_only = FALSE
    /\ extra_params_files = <<>>
    /\ github_env = None
    /\ github_output = None
    /\ steps = <<>>
    /\ CredentialIdle /\ ResolveIdle /\ AccessIdle /\ ToolIdle

\* write_params(params_file, ingress_class, hosts)
WriteParams ==
    /\ pc = "start"
    /\ files' = write_params(files, params_file, ingress_class,
                             build_hosts(ip_value))
    /\ pc' = "written"
    /\ UNCHANGED <<result, ip_value, original, manifest_files,
                   validation_paths, stale, credential_vars, resolve_vars,
                   access_vars, main_vars, tool_vars>>

\* read_ingress_class(params_file), before or after the file is written
ReadIngressClass ==
    /\ pc \in {"start", "written"}
    /\ result' = Return(read_ingress_class(files, params_file))
    /\ pc' = IF pc = "start" THEN "read" ELSE "round_trip"
    /\ UNCHANGED <<ip_value, hosts_vars, credential_vars, resolve_vars,
                   access_vars, main_vars, tool_vars>>

NextParams == WriteParams \/ ReadIngressClass

SpecParams == InitParams /\ [][NextParams]_vars

----------------------------------------------------------------------------
(* Claims about the params file.                                           *)

\* C21: for every ingress class c and every Hosts h, after
\* write_params(file, c, h) the call read_ingress_class(file) returns c.
C21_ParamsRoundTrip ==
    (pc = "round_trip") => result = Return(ingress_class)

----------------------------------------------------------------------------
(* main() of configure_demo_hosts.py as a state machine.  Each call of     *)
(* main() is a step; what the cluster reports and whether a port accepts   *)
(* a connection is chosen when the call is made.                           *)

MainParams == <<"gitops/params.env">>

ExtraParams == <<"gitops/sub/params.env">>

GithubEnvFile == <<"github_env">>

GithubOutputFile == <<"github_output">>

Public1 == <<"20", ".", "50", ".", "1", ".", "2">>

Public2 == <<"8", ".", "8", ".", "8", ".", "8">>

Private1 == <<"10", ".", "0", ".", "0", ".", "4">>

\* The working tree: a manifest outside gitops of the given text, one
\* below it, the params files and the environment file of the job.  All
\* of them hold host names of an earlier address.
MainTree(text, with_params) ==
    (IF with_params
     THEN (MainParams :> <<"ingressClass", "=", "traefik", "\n",
                           "keycloakHost", "=">> \o NipHost("kc", IpB)
                         \o <<"\n">>)
     ELSE <<>>)
    @@ (ExtraParams :> <<"ingressClass", "=", "\n", "keycloakHost", "=">>
                       \o NipHost("kc", IpB) \o <<"\n">>)
    @@ (GithubEnvFile :> <<"CI", "=", "true", "\n">>)
    @@ (ManifestA :> text)
    @@ (ManifestB :> <<"host", " ">> \o NipHost("mp", IpB) \o <<" ">>
                     \o NipHost("argocd", IpA))

MainTexts ==
    { NipHost("kc", IpB) \o <<" ">> \o NipHost("argocd", IpLong),
      <<"x">> \o NipHost("mp", Public1) }

InitMain ==
    /\ pc = "start"
    /\ result = Running
    /\ ip_value = None
    /\ files \in { MainTree(text, with_params) :
                     text \in MainTexts, with_params \in BOOLEAN }
    /\ original = files
    /\ manifest_files \in { <<ManifestA, ManifestB>>,
                            <<ManifestA, <<"missing.yaml">> >> }
    /\ validation_paths \in { << <<"gitops">> >>, <<ManifestA>> }
    /\ stale = <<>>
    /\ explicit_ip \in {None, Public1, Private1}
    /\ explicit_hostname = None
    /\ kubectl_calls = <<>>
    /\ ip_values = <<>>
    /\ hostname_values = <<>>
    /\ hostname_candidates = <<>>
    /\ lookups = <<>>
    /\ ports = DefaultPorts
    /\ skip_reachability_check \in BOOLEAN
    /\ remaining = <<>>
    /\ attempts = <<>>
    /\ connection_errors = <<>>
    /\ stderr = <<>>
    /\ ingress_class_arg \in {None, <<>>, <<"custom">>, <<"nginx", " ">>,
                              <<"a", "\n", "b", "=", "c">>}
    /\ print_only \in BOOLEAN
    /\ params_file = MainParams
    /\ extra_params_files \in { <<>>, <<ExtraParams>>,
                                << <<"./gitops/params.env">>, ExtraParams >> }
    /\ github_env \in {None, GithubEnvFile}
    /\ github_output \in {None, GithubOutputFile}
    /\ ingress_class = None
    /\ steps = <<>>
    /\ CredentialIdle /\ ToolIdle

\* The variables main() only reads.
main_args ==
    <<manifest_files, validation_paths, explicit_ip, explicit_hostname,
      ports, skip_reachability_check, ingress_class_arg, print_only,
      params_file, extra_params_files, github_env, github_output, original>>

\* The variables of the calls that main() makes and this machine takes as
\* one step.
main_calls ==
    <<kubectl_calls, ip_values, hostname_values, hostname_candidates, lookups,
      remaining, attempts, connection_errors, stderr>>

\* ingress_class = args.ingress_class or read_ingress_class(...) or "nginx"
MainIngressClass ==
    /\ pc = "start"
    /\ ingress_class' = recorded_class(files, ingress_class_arg, params_file)
    /\ pc' = "resolve"
    /\ UNCHANGED <<result, ip_value, files, stale, steps, main_args,
                   main_calls, credential_vars, tool_vars>>

\* ip_value = resolve_ingress_ip(...): the explicit address if it is
\* valid, else an address the cluster reports, or the error for none.
MainResolve ==
    /\ pc = "resolve"
    /\ \E outcome \in
           (IF Truthy(explicit_ip)
            THEN { IF ip_address(explicit_ip) THEN Return(explicit_ip)
                   ELSE Raise("ValueError", explicit_ip) }
            ELSE { Return(Public2),
                   Raise("RuntimeError",
                         <<"Ingress controller does not expose an external IP or hostname yet.">>) }) :
           /\ ip_value' = IF outcome.kind = "return" THEN outcome.value
                          ELSE ip_value
           /\ result' = IF outcome.kind = "return" THEN result ELSE outcome
           /\ pc' = IF outcome.kind = "return" THEN "check" ELSE "failed"
    /\ steps' = Append(steps, <<"resolve_ingress_ip">>)
    /\ UNCHANGED <<files, stale, ingress_class, main_args, main_calls,
                   credential_vars, tool_vars>>

\* ensure_ingress_accessible(ip_value, raise_on_error=...): the rejection
\* of a non-public address, then the connections.
MainCheck ==
    /\ pc = "check"
    /\ \E accepted \in BOOLEAN :
           LET outcome ==
                   IF IsNonPublic(ip_value) THEN non_public_error(ip_value)
                   ELSE IF accepted THEN Return(None)
                   ELSE unreachable(raise_on_error,
                            unreachable_message(ip_value, ports, ports))
           IN  /\ result' = IF outcome.kind = "return" THEN result
                            ELSE outcome
               /\ pc' = IF outcome.kind = "return" THEN "built"
                        ELSE "failed"
    /\ steps' = Append(steps, <<"ensure_ingress_accessible">>)
    /\ UNCHANGED <<ip_value, files, stale, ingress_class, main_args,
                   main_calls, credential_vars, tool_vars>>

\* if args.print_only: the three prints and return 0
MainPrintOnly ==
    /\ pc = "built"
    /\ returns_before_writes(print_only)
    /\ result' = Return(0)
    /\ pc' = "done"
    /\ UNCHANGED <<ip_value, files, stale, ingress_class, steps, main_args,
                   main_calls, credential_vars, tool_vars>>

\* write_params(args.params_file, ...) and the loop over the extra files
MainWriteParams ==
    /\ pc = "built"
    /\ ~returns_before_writes(print_only)
    /\ files' = write_extra_params(
                    write_params(files, resolve(params_file), ingress_class,
                                 build_hosts(ip_value)),
                    extra_params_files, params_file, ingress_class,
                    build_hosts(ip_value))
    /\ steps' = steps \o << <<"write_params">> \o resolve(params_file) >>
                      \o extra_writes(extra_params_files, params_file)
    /\ pc' = "written"
    /\ UNCHANGED <<result, ip_value, stale, ingress_class, main_args,
                   main_calls, credential_vars, tool_vars>>

\* update_manifest_hosts(manifest_files, hosts)
MainUpdateManifests ==
    /\ pc = "written"
    /\ LET updated ==
               update_manifest_hosts(files, manifest_files,
                                     build_hosts(ip_value))
       IN  /\ files' = updated.files
           /\ pc' = IF updated.error = None THEN "updated" ELSE "failed"
           /\ result' = IF updated.error = None THEN result
                        ELSE Raise(updated.error[1], <<>>)
    /\ steps' = Append(steps, <<"update_manifest_hosts">>)
    /\ UNCHANGED <<ip_value, stale, ingress_class, main_args, main_calls,
                   credential_vars, tool_vars>>

\* ensure_hosts_rotated(validation_paths, ip_value)
MainEnsureRotated ==
    /\ pc = "updated"
    /\ \E listing \in Listings(files) :
           /\ stale' = discover_stale_hosts(files, validation_paths, ip_value,
                                            listing)
           /\ result' = IF ensure_hosts_rotated(stale').kind = "return"
                        THEN result
                        ELSE ensure_hosts_rotated(stale')
           /\ pc' = IF ensure_hosts_rotated(stale').kind = "return"
                    THEN "rotated"
                    ELSE "failed"
    /\ steps' = Append(steps, <<"ensure_hosts_rotated">>)
    /\ UNCHANGED <<ip_value, files, ingress_class, main_args, main_calls,
                   credential_vars, tool_vars>>

\* The lines appended to the files GITHUB_ENV and GITHUB_OUTPUT name, and
\* return 0
MainCiOutput ==
    /\ pc = "rotated"
    /\ LET with_env ==
               IF Truthy(github_env)
               THEN append_text(files, github_env,
                        github_env_lines(ip_value, build_hosts(ip_value)))
               ELSE files
       IN  files' = IF Truthy(github_output)
                    THEN append_text(with_env, github_output,
                             github_output_lines(build_hosts(ip_value)))
                    ELSE with_env
    /\ steps' = steps
                \o (IF Truthy(github_env) THEN << <<"GITHUB_ENV">> >>
                    ELSE <<>>)
                \o (IF Truthy(github_output) THEN << <<"GITHUB_OUTPUT">> >>
                    ELSE <<>>)
    /\ result' = Return(0)
    /\ pc' = "done"
    /\ UNCHANGED <<ip_value, stale, ingress_class, main_args, main_calls,
                   credential_vars, tool_vars>>

NextMain ==
    \/ MainIngressClass
    \/ MainResolve
    \/ MainCheck
    \/ MainPrintOnly
    \/ MainWriteParams
    \/ MainUpdateManifests
    \/ MainEnsureRotated
    \/ MainCiOutput

SpecMain == InitMain /\ [][NextMain]_vars

----------------------------------------------------------------------------
(* Claims about main() of configure_demo_hosts.py.                         *)

\* The host name of a service for the resolved address.
HostOf(prefix) == <<prefix, ".">> \o ip_value \o <<".", "nip", ".", "io">>

\* The file has the line.
HasLine(f, line) ==
    \E k \in DOMAIN splitlines(files[f]) : splitlines(files[f])[k] = line

\* The params files of the run.
ParamsFiles ==
    {resolve(params_file)}
    \cup { resolve(extra_params_files[k]) : k \in DOMAIN extra_params_files }

\* The kc, mp and argocd nip.io host names of a text, each as its service
\* prefix and its embedded address, in order.
RECURSIVE HostNames(_)
HostNames(text) ==
    IF text = <<>> THEN <<>>
    ELSE IF \E prefix \in {"kc", "mp", "argocd"} :
                PatternMatchAt(text, 1, prefix)
    THEN << <<text[1], SubSeq(text, 3, HostTokens - 4)>> >>
         \o HostNames(Drop(text, HostTokens))
    ELSE HostNames(Tail(text))

\* The text with every such host name cut down to its service prefix.
RECURSIVE Skeleton(_)
Skeleton(text) ==
    IF text = <<>> THEN <<>>
    ELSE IF \E prefix \in {"kc", "mp", "argocd"} :
                PatternMatchAt(text, 1, prefix)
    THEN <<"<host>", text[1]>> \o Skeleton(Drop(text, HostTokens))
    ELSE <<text[1]>> \o Skeleton(Tail(text))

\* The text of a file before the run, empty for a file that did not exist.
Before(f) == IF f \in DOMAIN original THEN original[f] ELSE <<>>

\* The run ended with return 0 and was not a --print-only run.
Succeeded == pc = "done" /\ ~print_only /\ result = Return(0)

\* C22: after a successful run without --print-only the params file and
\* each extra params file have the same content, with the three host names
\* of the resolved address; every existing manifest of --manifest-file has
\* its kc, mp and argocd host names on the resolved address, prefix kept
\* and the rest of the text untouched; and the files GITHUB_ENV and
\* GITHUB_OUTPUT name end with the lines for that address, after what
\* they held before.
C22_OutputsAgree ==
    Succeeded =>
        /\ \A f \in ParamsFiles :
               /\ f \in DOMAIN files
               /\ files[f] = files[resolve(params_file)]
               /\ HasLine(f, <<"keycloakHost", "=">> \o HostOf("kc"))
               /\ HasLine(f, <<"midpointHost", "=">> \o HostOf("mp"))
               /\ HasLine(f, <<"argocdHost", "=">> \o HostOf("argocd"))
        /\ \A k \in DOMAIN manifest_files :
               manifest_files[k] \in DOMAIN original =>
                   /\ Skeleton(files[manifest_files[k]])
                          = Skeleton(original[manifest_files[k]])
                   /\ \A j \in DOMAIN HostNames(files[manifest_files[k]]) :
                          HostNames(files[manifest_files[k]])[j][2] = ip_value
        /\ Truthy(github_env) =>
               files[github_env] =
                   Before(github_env)
                   \o <<"EXTERNAL_IP", "=">> \o ip_value \o <<"\n">>
                   \o <<"KC_HOST", "=">> \o HostOf("kc") \o <<"\n">>
                   \o <<"MP_HOST", "=">> \o HostOf("mp") \o <<"\n">>
                   \o <<"ARGOCD_HOST", "=">> \o HostOf("argocd") \o <<"\n">>
        /\ Truthy(github_output) =>
               files[github_output] =
                   Before(github_output)
                   \o <<"keycloak_url", "=", "http", ":", "/", "/">>
                   \o HostOf("kc") \o <<"\n">>
                   \o <<"midpoint_url", "=", "http", ":", "/", "/">>
                   \o HostOf("mp") \o <<"/", "midpoint", "\n">>
                   \o <<"argocd_url", "=", "http", ":", "/", "/">>
                   \o HostOf("argocd") \o <<"\n">>

\* A successful run that wrote two params files, rewrote two manifests and
\* appended to an environment file that had content.
C22_Witness ==
    /\ Succeeded
    /\ extra_params_files = << <<"./gitops/params.env">>, ExtraParams >>
    /\ manifest_files = <<ManifestA, ManifestB>>
    /\ files[ManifestA] # original[ManifestA]
    /\ files[ManifestB] # original[ManifestB]
    /\ github_env = GithubEnvFile
    /\ github_output = GithubOutputFile
    /\ Before(GithubEnvFile) # <<>>

\* The steps of main() in their order.  The writes of the params files are
\* one step, and so are the writes to GITHUB_ENV and GITHUB_OUTPUT.
StepOrder ==
    <<"resolve_ingress_ip", "ensure_ingress_accessible", "write_params",
      "update_manifest_hosts", "ensure_hosts_rotated", "GITHUB_ENV",
      "GITHUB_OUTPUT">>

\* The place of a step in the order.
StepRank(step) == CHOOSE k \in DOMAIN StepOrder : StepOrder[k] = step[1]

\* The step was taken.
Took(name) == \E k \in DOMAIN steps : steps[k][1] = name

\* The files a run without --print-only writes: params files, manifests
\* and the files GITHUB_ENV and GITHUB_OUTPUT name.
Written == { f \in DOMAIN files : f \notin DOMAIN original \/ files[f] # original[f] }

CiFiles == {github_env, github_output} \ {None}

\* The step the run failed at is the last one taken.
FailedAt(name) ==
    /\ result.kind = "raise"
    /\ steps # <<>>
    /\ steps[Len(steps)][1] = name

\* The params files and the manifests hold the values of the resolved
\* address.
NewValuesKept ==
    /\ \A f \in {resolve(params_file)}
               \cup { resolve(extra_params_files[k]) :
                        k \in { j \in DOMAIN extra_params_files :
                                  extra_params_files[j] # None } } :
           /\ f \in DOMAIN files
           /\ HasLine(f, <<"keycloakHost", "=">> \o HostOf("kc"))
    /\ \A k \in DOMAIN manifest_files :
           manifest_files[k] \in DOMAIN original =>
               \A j \in DOMAIN HostNames(files[manifest_files[k]]) :
                   HostNames(files[manifest_files[k]])[j][2] = ip_value

\* The state part of C27.
StepsInOrder ==
    /\ \A j, k \in DOMAIN steps :
           j < k => StepRank(steps[j]) <= StepRank(steps[k])
    /\ \A k \in DOMAIN steps :
           \A r \in 1..(StepRank(steps[k]) - 1) :
               r <= 5 => Took(StepOrder[r])
    /\ (Written # {}) =>
           /\ Took("ensure_ingress_accessible")
           /\ ~FailedAt("resolve_ingress_ip")
           /\ ~FailedAt("ensure_ingress_accessible")
           /\ ip_address(ip_value)
    /\ (Written \cap CiFiles # {}) =>
           /\ Took("ensure_hosts_rotated")
           /\ stale = <<>>
           /\ result.kind # "raise"
    /\ FailedAt("ensure_hosts_rotated") =>
           /\ NewValuesKept
           /\ Written \cap CiFiles = {}

\* A step of a run that has raised an exception.
StepAfterFailure == result.kind = "raise"

\* C27: main() takes its steps in the order resolve, reachability check,
\* params files, manifests, stale-host scan, CI output, none before the
\* ones ahead of it; after a step has raised no later step is taken; no
\* file is written unless the address resolved and passed the check; the
\* GITHUB_ENV and GITHUB_OUTPUT files are written only after the scan found
\* nothing stale; and when the scan raises, the params files and manifests
\* keep the new values.
C27_StepOrder == [](StepsInOrder) /\ [][~StepAfterFailure]_vars

\* The scan raised after the params files and a manifest were rewritten.
C27_Witness ==
    /\ FailedAt("ensure_hosts_rotated")
    /\ files[ManifestA] # original[ManifestA]
    /\ files[resolve(params_file)] # Before(resolve(params_file))
    /\ github_env = GithubEnvFile
    /\ files[GithubEnvFile] = original[GithubEnvFile]

\* C28: a --print-only run that resolved the address and passed the
\* reachability check returns 0 with every file as it was before the run
\* and without a stale-host scan; a --print-only run never changes a file.
C28_PrintOnly ==
    print_only =>
        /\ files = original
        /\ ~Took("ensure_hosts_rotated")
        /\ stale = <<>>
        /\ (pc = "done") =>
               /\ result = Return(0)
               /\ steps = << <<"resolve_ingress_ip">>,
                             <<"ensure_ingress_accessible">> >>
               /\ ip_address(ip_value)
        /\ (pc = "built") => ENABLED MainPrintOnly

\* A --print-only run that ended, with GITHUB_ENV and GITHUB_OUTPUT set.
C28_Witness ==
    /\ print_only
    /\ pc = "done"
    /\ result = Return(0)
    /\ github_env = GithubEnvFile
    /\ github_output = GithubOutputFile
    /\ files = original

\* The class the primary params file held before the run, None for none.
OldClass == read_ingress_class(original, params_file)

\* --ingress-class if given, else the non-empty class of the primary
\* params file, else nginx.
ExpectedClass ==
    IF Truthy(ingress_class_arg) THEN ingress_class_arg
    ELSE IF OldClass # None /\ OldClass # <<>> THEN OldClass
    ELSE <<"nginx">>

\* The full text of a params file for a class and the resolved address.
FullText(class) ==
    <<"# Ingress parameters for the IAM demo environment.", "\n",
      "# Hosts rotate via scripts/configure_demo_hosts.py; update ingressClass here if", "\n",
      "# your cluster uses a different controller.", "\n",
      "ingressClass", "=">> \o class
    \o <<"\n", "keycloakHost", "=">> \o HostOf("kc")
    \o <<"\n", "midpointHost", "=">> \o HostOf("mp")
    \o <<"\n", "argocdHost", "=">> \o HostOf("argocd") \o <<"\n">>

\* The keys of the key=value lines of a text, in order; comment lines and
\* lines without "=" have none.
RECURSIVE KeysOf(_)
KeysOf(lines) ==
    IF lines = <<>> THEN <<>>
    ELSE (IF /\ lines[1] # <<>>
             /\ SubSeq(lines[1][1], 1, 1) # "#"
             /\ Contains(lines[1], "=")
          THEN << partition(lines[1], "=").head >>
          ELSE <<>>)
         \o KeysOf(Tail(lines))

FourKeys ==
    << <<"ingressClass">>, <<"keycloakHost">>, <<"midpointHost">>,
       <<"argocdHost">> >>

\* The number of write_params calls on a file.
WritesOf(f) ==
    Cardinality({ k \in DOMAIN steps : steps[k] = <<"write_params">> \o f })

\* A class of one line without blanks around it.
IsPlainClass(class) ==
    /\ class = strip(class, Whitespace)
    /\ ~Contains(class, "\n")

\* The params files have just been written.
ParamsWritten == pc = "written"

\* What C29 says of every class.
ParamsRewritten ==
    /\ ingress_class = ExpectedClass
    /\ \A f \in ParamsFiles :
           /\ f \in DOMAIN files
           /\ files[f] = FullText(ingress_class)
    /\ WritesOf(resolve(params_file)) = 1

----------------------------------------------------------------------------
(* The calls of the external tools as a state machine: one call of         *)
(* run_kubectl_jsonpath, _run_az, _kubectl_json or _patch_service; how the *)
(* process ends is chosen when it is run.                                  *)

\* DEFAULT_SERVICE, three-part references, and references of one and of
\* four parts.
ServiceRefs ==
    { <<"ingress-nginx", "/", "ingress-nginx-controller">>,
      <<"iam", "/", "service", "/", "missing">>,
      <<"iam", "/", "deployment", "/", "web">>,
      <<"solo">>,
      <<"a", "/", "b", "/", "c", "/", "d">> }

\* The finished processes.
ToolProcs ==
    [returncode : {0, 1, 2},
     stdout : { <<>>, <<"out">>, <<" ", "out", "\n">> },
     stderr : { <<>>, <<"resource not found", "\n">>, <<"\n">> }]

JsonPaths == { <<"{.status}">>, <<"{.status.loadBalancer.ingress[0].ip}">> }

AzArgs ==
    { << <<"aks">>, <<"show">>, <<"--name">>, <<"demo">> >>,
      << <<"network">>, <<"lb">>, <<"list">> >> }

Payloads == { <<"{\"spec\": {\"type\": \"LoadBalancer\"}}">> }

\* An entry of the log of commands: the function that ran it, its
\* arguments and how it ended.
Ran(by, cmd, proc) == [by |-> by, cmd |-> cmd, proc |-> proc]

InitTools ==
    /\ pc = "start"
    /\ result = Running
    /\ ip_value = None
    /\ service \in ServiceRefs
    /\ commands = <<>>
    /\ CredentialIdle /\ HostsIdle /\ ResolveIdle /\ AccessIdle /\ MainIdle
    /\ WaitIdle /\ EnsureIdle

\* run_kubectl_jsonpath(service, jsonpath)
RunKubectlJsonpath ==
    /\ pc = "start"
    /\ \E jsonpath \in JsonPaths, proc \in ToolProcs :
           \E r \in {_format_kubectl_resource(service)} :
               IF r.kind = "raise"
               THEN result' = r /\ UNCHANGED commands
               ELSE \E cmd \in {jsonpath_cmd(r.value[1], r.value[2],
                                              jsonpath)} :
                        /\ commands' = Append(commands,
                               Ran("run_kubectl_jsonpath", cmd, proc))
                        /\ result' = kubectl_jsonpath_outcome(cmd, proc)
    /\ pc' = "done"
    /\ UNCHANGED <<ip_value, service, credential_vars, hosts_vars,
                   resolve_vars, access_vars, main_vars, wait_vars,
                   ensure_vars>>

\* _run_az(cmd)
RunAz ==
    /\ pc = "start"
    /\ \E args \in AzArgs, proc \in ToolProcs :
           /\ commands' = Append(commands,
                              Ran("_run_az", << <<"az">> >> \o args, proc))
           /\ result' = _run_az(args, proc)
    /\ pc' = "done"
    /\ UNCHANGED <<ip_value, service, credential_vars, hosts_vars,
                   resolve_vars, access_vars, main_vars, wait_vars,
                   ensure_vars>>

\* namespace, name = _parse_service(service); _kubectl_json(namespace, name)
KubectlJson ==
    /\ pc = "start"
    /\ \E proc \in ToolProcs :
           \E r \in {_parse_service(service)} :
               IF r.kind = "raise"
               THEN result' = r /\ UNCHANGED commands
               ELSE /\ commands' = Append(commands,
                           Ran("_kubectl_json",
                               kubectl_json_cmd(r.value[1], r.value[2]),
                               proc))
                    /\ result' = _kubectl_json(proc)
    /\ pc' = "done"
    /\ UNCHANGED <<ip_value, service, credential_vars, hosts_vars,
                   resolve_vars, access_vars, main_vars, wait_vars,
                   ensure_vars>>

\* namespace, name = _parse_service(service);
\* _patch_service(namespace, name, patch)
PatchService ==
    /\ pc = "start"
    /\ \E payload \in Payloads, proc \in ToolProcs :
           \E r \in {_parse_service(service)} :
               IF r.kind = "raise"
               THEN result' = r /\ UNCHANGED commands
               ELSE \E cmd \in {patch_cmd(r.value[1], r.value[2],
                                           payload)} :
                        /\ commands' = Append(commands,
                               Ran("_patch_service", cmd, proc))
                        /\ result' = _patch_service(cmd, proc)
    /\ pc' = "done"
    /\ UNCHANGED <<ip_value, service, credential_vars, hosts_vars,
                   resolve_vars, access_vars, main_vars, wait_vars,
                   ensure_vars>>

NextTools == RunKubectlJsonpath \/ RunAz \/ KubectlJson \/ PatchService

SpecTools == InitTools /\ [][NextTools]_vars

----------------------------------------------------------------------------
(* Claims about the external tools.                                        *)

\* The command the call ran.
LastCommand == commands[Len(commands)]

\* The error type of a tool.
DedicatedError(cmd) ==
    IF cmd[1] = <<"kubectl">> THEN "KubectlError" ELSE "AzureCliError"

\* The parts of the service reference.
ServiceParts == split_slash(service)

\* The command of run_kubectl_jsonpath for the service reference.
JsonpathShape(cmd) ==
    /\ Len(cmd) = 7
    /\ SubSeq(cmd, 1, 2) = << <<"kubectl">>, <<"-n">> >>
    /\ cmd[3] = ServiceParts[1]
    /\ cmd[4] = <<"get">>
    /\ cmd[5] = (IF Len(ServiceParts) = 2
                 THEN <<"service", "/">> \o ServiceParts[2]
                 ELSE ServiceParts[2] \o <<"/">> \o ServiceParts[3])
    /\ cmd[6] = <<"-o">>
    /\ cmd[7][1] = "jsonpath="
    /\ Tail(cmd[7]) \in JsonPaths

\* C23: a non-zero exit of kubectl raises KubectlError and one of az
\* raises AzureCliError, with a message that carries the command line, the
\* exit code and what the process wrote to stderr (and, from
\* run_kubectl_jsonpath, to stdout); the command of run_kubectl_jsonpath is
\* kubectl -n <namespace> get <resource> -o jsonpath=<expr>, with
\* service/<name> for a two-part and <resource>/<name> for a three-part
\* reference.
C23_DedicatedErrors ==
    (pc = "done" /\ commands # <<>>) =>
        /\ LastCommand.proc.returncode # 0 =>
               /\ result.kind = "raise"
               /\ result.type = DedicatedError(LastCommand.cmd)
               /\ Carries(result.message, join(<<" ">>, LastCommand.cmd))
               /\ Carries(result.message,
                          <<ToString(LastCommand.proc.returncode)>>)
               /\ Carries(result.message,
                          strip(LastCommand.proc.stderr, Whitespace))
               /\ LastCommand.by = "run_kubectl_jsonpath" =>
                      Carries(result.message,
                              strip(LastCommand.proc.stdout, Whitespace))
        /\ LastCommand.by = "run_kubectl_jsonpath" =>
               JsonpathShape(LastCommand.cmd)

----------------------------------------------------------------------------
(* apply_secret as a state machine: the rendering stage, then the apply    *)
(* stage; how each process ends is chosen when it is run.                  *)

SecretNamespace == <<"iam">>

\* Credentials as parse_credential returns them: the key and the token are
\* None, empty (AccountKey= in a connection string) or a text.
AppliedCredentials ==
    { AzureCredential(<<"acct">>,
                      <<"DefaultEndpointsProtocol=https;AccountName=acct">>,
                      key, sas) :
          key \in { None, <<>>, <<"a2V5">> },
          sas \in { None, <<>>, <<"sv=1", "&", "sig=x">> } }

StageProcs ==
    [returncode : {0, 1},
     stdout : { <<>>, <<"kind: Secret", "\n">>, <<"apiVersion: v1">> },
     stderr : { <<>>, <<"forbidden", "\n">> }]

\* An entry of the log of commands with the text given on stdin.
Piped(by, cmd, input, proc) ==
    [by |-> by, cmd |-> cmd, input |-> input, proc |-> proc]

InitApply ==
    /\ pc = "start"
    /\ result = Running
    /\ ip_value = None
    /\ secret = <<>>
    /\ wrapper = <<"none">>
    /\ fallback = <<>>
    /\ credential \in AppliedCredentials
    /\ unwrapped = NotRun
    /\ reparsed = NotRun
    /\ RecursionIdle
    /\ HostsIdle /\ ResolveIdle /\ AccessIdle /\ MainIdle /\ ToolIdle

\* proc = subprocess.run(args, ...) and the test of its return code
RenderSecret ==
    /\ pc = "start"
    /\ \E proc \in StageProcs :
           /\ commands' = Append(commands,
                  Piped("apply_secret",
                        create_secret_args(SecretNamespace, credential),
                        None, proc))
           /\ result' = (IF render_outcome(proc).kind = "raise"
                         THEN render_outcome(proc) ELSE Running)
           /\ pc' = (IF render_outcome(proc).kind = "raise"
                     THEN "failed" ELSE "rendered")
    /\ UNCHANGED <<ip_value, service, credential_vars, hosts_vars,
                   resolve_vars, access_vars, main_vars, wait_vars,
                   ensure_vars>>

\* apply = subprocess.run(["kubectl", "apply", "-f", "-"], input=proc.stdout)
ApplySecret ==
    /\ pc = "rendered"
    /\ \E proc \in StageProcs :
           /\ commands' = Append(commands,
                  Piped("apply_secret", apply_args,
                        commands[Len(commands)].proc.stdout, proc))
           /\ result' = apply_outcome(proc)
           /\ pc' = (IF apply_outcome(proc).kind = "raise"
                     THEN "failed" ELSE "done")
    /\ UNCHANGED <<ip_value, service, credential_vars, hosts_vars,
                   resolve_vars, access_vars, main_vars, wait_vars,
                   ensure_vars>>

NextApply == RenderSecret \/ ApplySecret

SpecApply == InitApply /\ [][NextApply]_vars

----------------------------------------------------------------------------
(* Claims about apply_secret.                                              *)

\* The command is the rendering of the secret.
IsRender(c) ==
    /\ c.cmd[4] = <<"create">>
    /\ c.cmd[5] = <<"secret">>
    /\ \E i \in DOMAIN c.cmd : c.cmd[i] = <<"--dry-run=client">>

IsApply(c) == c.cmd = << <<"kubectl">>, <<"apply">>, <<"-f">>, <<"-">> >>

\* The command passes the literal with the value.
PassesLiteral(c, name, value) ==
    \E i \in DOMAIN c.cmd :
        c.cmd[i] = <<"--from-literal=" \o name \o "=">> \o value

\* The command passes a literal of the name.
NamesLiteral(c, name) ==
    \E i \in DOMAIN c.cmd :
        c.cmd[i][1] = "--from-literal=" \o name \o "="

\* C24: apply_secret renders, then applies: kubectl apply runs only after
\* the rendering exited 0 and is given exactly the stdout of the
\* rendering; a non-zero exit of either stage ends the call with
\* RuntimeError; the rendering passes AZURE_STORAGE_KEY exactly when
\* account_key is set, AZURE_STORAGE_SAS_TOKEN exactly when sas_token is
\* set, and AZURE_STORAGE_ACCOUNT and AZURE_CONNECTION_STRING always.
C24_TwoStagePipeline ==
    /\ Len(commands) <= 2
    /\ \A i \in DOMAIN commands :
           /\ IsApply(commands[i]) =>
                  /\ i = 2
                  /\ IsRender(commands[1])
                  /\ commands[1].proc.returncode = 0
                  /\ commands[i].input = commands[1].proc.stdout
           /\ IsRender(commands[i]) =>
                  /\ i = 1
                  /\ PassesLiteral(commands[i], "AZURE_STORAGE_ACCOUNT",
                                   credential.storage_account)
                  /\ PassesLiteral(commands[i], "AZURE_CONNECTION_STRING",
                                   credential.connection_string)
                  /\ NamesLiteral(commands[i], "AZURE_STORAGE_KEY")
                         <=> Truthy(credential.account_key)
                  /\ NamesLiteral(commands[i], "AZURE_STORAGE_SAS_TOKEN")
                         <=> Truthy(credential.sas_token)
                  /\ Truthy(credential.account_key) =>
                         PassesLiteral(commands[i], "AZURE_STORAGE_KEY",
                                       credential.account_key)
                  /\ Truthy(credential.sas_token) =>
                         PassesLiteral(commands[i], "AZURE_STORAGE_SAS_TOKEN",
                                       credential.sas_token)
           /\ IsApply(commands[i]) \/ IsRender(commands[i])
           /\ commands[i].proc.returncode # 0 =>
                  /\ i = Len(commands)
                  /\ pc = "failed"
                  /\ result.kind = "raise"
                  /\ result.type = "RuntimeError"
    /\ (pc = "done") =>
           /\ Len(commands) = 2
           /\ result = Return(None)
    /\ (pc = "rendered") => Len(commands) = 1

\* The secret was rendered with the key and without the token, and the
\* rendering, which was not empty, was applied.
C24_Witness ==
    /\ pc = "done"
    /\ Truthy(credential.account_key)
    /\ credential.sas_token = None
    /\ Len(commands) = 2
    /\ commands[2].input = <<"kind: Secret", "\n">>

----------------------------------------------------------------------------
(* _wait_for_load_balancer as a state machine.  Time is counted in         *)
(* seconds; a kubectl call takes at least one second, a sleep at least its *)
(* length.                                                                 *)

MaxTimeout == 4

MaxInterval == 2

\* The longest a kubectl call takes.
MaxElapsed == 2

\* The longest a sleep lasts beyond its length, and the longest the first
\* loop test comes after the deadline was computed.
MaxDelay == 1

DefaultService == <<"ingress-nginx", "/", "ingress-nginx-controller">>

\* The jsonpath queries of the poll.
FirstIpPath == <<"{.status.loadBalancer.ingress[0].ip}">>

FirstHostnamePath == <<"{.status.loadBalancer.ingress[0].hostname}">>

\* kubectl fails, prints nothing, or prints the address.
WaitProcs(address) ==
    { [returncode |-> 1, stdout |-> <<>>, stderr |-> <<"not found", "\n">>],
      [returncode |-> 0, stdout |-> <<>>, stderr |-> <<>>],
      [returncode |-> 0, stdout |-> address, stderr |-> <<>>] }

\* The command of a poll of the service.
poll_cmd(jsonpath) ==
    jsonpath_cmd(_format_kubectl_resource(service).value[1],
                 _format_kubectl_resource(service).value[2], jsonpath)

InitWait ==
    /\ pc = "wait"
    /\ result = Running
    /\ ip_value = None
    /\ service = DefaultService
    /\ commands = <<>>
    /\ timeout \in -1..MaxTimeout
    /\ interval \in -1..MaxInterval
    /\ clock \in {0, 7}
    /\ deadline = 0
    /\ polls = <<>>
    /\ sleeps = <<>>
    /\ CredentialIdle /\ HostsIdle /\ ResolveIdle /\ AccessIdle /\ MainIdle
    /\ EnsureIdle

\* deadline = time.monotonic() + timeout
WaitStart ==
    /\ pc = "wait"
    /\ deadline' = clock + timeout
    /\ \E d \in 0..MaxDelay : clock' = clock + d
    /\ pc' = "test"
    /\ UNCHANGED <<result, ip_value, service, commands, timeout, interval,
                   polls, sleeps, credential_vars, hosts_vars, resolve_vars,
                   access_vars, main_vars, ensure_vars>>

\* while time.monotonic() < deadline, and the raise after the loop
WaitTest ==
    /\ pc = "test"
    /\ IF loop_continues(clock, deadline)
       THEN /\ polls' = Append(polls, [at |-> clock, ip |-> Running,
                                       hostname |-> Running])
            /\ pc' = "poll_ip"
            /\ UNCHANGED result
       ELSE /\ result' = timed_out
            /\ pc' = "timed_out"
            /\ UNCHANGED polls
    /\ UNCHANGED <<ip_value, service, commands, timeout, interval, clock,
                   deadline, sleeps, credential_vars, hosts_vars,
                   resolve_vars, access_vars, main_vars, ensure_vars>>

\* ip_value = run_kubectl_jsonpath(service, "{...ingress[0].ip}") and
\* `if ip_value: return`
PollIp ==
    /\ pc = "poll_ip"
    /\ \E proc \in WaitProcs(<<"20.50.1.2">>), d \in 1..MaxElapsed :
           /\ commands' = Append(commands, Ran("run_kubectl_jsonpath",
                                               poll_cmd(FirstIpPath), proc))
           /\ polls' = [polls EXCEPT ![Len(polls)].ip =
                            kubectl_jsonpath_outcome(poll_cmd(FirstIpPath), proc)]
           /\ clock' = clock + d
           /\ IF address_or_empty(kubectl_jsonpath_outcome(poll_cmd(FirstIpPath),
                                                           proc)) # <<>>
              THEN result' = Return(None) /\ pc' = "waited"
              ELSE UNCHANGED result /\ pc' = "poll_hostname"
    /\ UNCHANGED <<ip_value, service, timeout, interval, deadline, sleeps,
                   credential_vars, hosts_vars, resolve_vars, access_vars,
                   main_vars, ensure_vars>>

\* hostname_value = run_kubectl_jsonpath(service, "{...ingress[0].hostname}")
\* and `if hostname_value: return`
PollHostname ==
    /\ pc = "poll_hostname"
    /\ \E proc \in WaitProcs(<<"lb.example.net">>), d \in 1..MaxElapsed :
           /\ commands' = Append(commands, Ran("run_kubectl_jsonpath",
                                               poll_cmd(FirstHostnamePath), proc))
           /\ polls' = [polls EXCEPT ![Len(polls)].hostname =
                            kubectl_jsonpath_outcome(poll_cmd(FirstHostnamePath),
                                                     proc)]
           /\ clock' = clock + d
           /\ IF address_or_empty(kubectl_jsonpath_outcome(
                          poll_cmd(FirstHostnamePath), proc)) # <<>>
              THEN result' = Return(None) /\ pc' = "waited"
              ELSE UNCHANGED result /\ pc' = "sleep"
    /\ UNCHANGED <<ip_value, service, timeout, interval, deadline, sleeps,
                   credential_vars, hosts_vars, resolve_vars, access_vars,
                   main_vars, ensure_vars>>

\* time.sleep(interval)
WaitSleep ==
    /\ pc = "sleep"
    /\ IF sleep_outcome(interval).kind = "raise"
       THEN /\ result' = sleep_outcome(interval)
            /\ pc' = "failed"
            /\ UNCHANGED <<clock, sleeps>>
       ELSE /\ \E d \in 0..MaxDelay :
                   /\ sleeps' = Append(sleeps,
                          [at |-> clock, until |-> clock + interval + d])
                   /\ clock' = clock + interval + d
            /\ pc' = "test"
            /\ UNCHANGED result
    /\ UNCHANGED <<ip_value, service, commands, timeout, interval, deadline,
                   polls, credential_vars, hosts_vars, resolve_vars,
                   access_vars, main_vars, ensure_vars>>

NextWait == WaitStart \/ WaitTest \/ PollIp \/ PollHostname \/ WaitSleep

\* The interpreter keeps running the one thread of the script, and a kubectl
\* process it waits for ends.
SpecWait == InitWait /\ [][NextWait]_vars /\ WF_vars(NextWait)

----------------------------------------------------------------------------
(* Claims about _wait_for_load_balancer.                                   *)

\* The address a poll saw: the IP, or else the hostname; empty when neither
\* was printed or kubectl failed.
Answer(outcome) ==
    IF outcome.kind = "return" THEN outcome.value ELSE <<>>

SawAddress(p) == Answer(p.ip) # <<>> \/ Answer(p.hostname) # <<>>

WaitEnded == pc \in {"waited", "timed_out", "failed"}

\* The polls and sleeps of the loop so far.
BoundedPolls ==
    \* no poll starts once the deadline has passed
    /\ \A i \in DOMAIN polls : polls[i].at < deadline
    \* the hostname is asked for only after an empty IP
    /\ \A i \in DOMAIN polls :
           polls[i].hostname # Running => Answer(polls[i].ip) = <<>>
    \* a poll that saw an address is the last, and the call returns at once
    /\ \A i \in DOMAIN polls :
           SawAddress(polls[i]) =>
               /\ i = Len(polls)
               /\ pc = "waited"
               /\ result = Return(None)
    /\ (pc = "waited") => (polls # <<>> /\ SawAddress(polls[Len(polls)]))
    \* between two polls the interval is slept
    /\ Len(sleeps) \in {Len(polls) - 1, Len(polls)}
    /\ \A i \in DOMAIN polls :
           i > 1 =>
               /\ sleeps[i - 1].until - sleeps[i - 1].at >= interval
               /\ polls[i - 1].at < sleeps[i - 1].at
               /\ sleeps[i - 1].until <= polls[i].at
    \* the error after the deadline
    /\ (pc = "timed_out") => (result = timed_out /\ clock >= deadline)
    /\ (result.kind = "raise" /\ result.type = "RuntimeError") =>
           pc = "timed_out"
    \* a timeout of 0 or less
    /\ (timeout <= 0) => polls = <<>>
    /\ (timeout <= 0 /\ WaitEnded) => result = timed_out

\* C25: _wait_for_load_balancer polls until the deadline: it returns as
\* soon as a poll sees an IP, or else a hostname (a failed kubectl is an
\* empty answer), sleeps the interval between two polls, starts no poll
\* once the deadline has passed and then raises the timed-out RuntimeError;
\* it always ends, by returning or raising, and with a timeout of 0 or less
\* it raises without a poll.
C25_BoundedWait == [](BoundedPolls) /\ <>(WaitEnded)

\* Two polls with a sleep between them saw nothing, and the call timed out.
C25_Witness ==
    /\ pc = "timed_out"
    /\ Len(polls) = 2
    /\ polls[1].ip.kind = "raise"
    /\ interval > 0

----------------------------------------------------------------------------
(* The recursion of parse_credential as a state machine: the calls that    *)
(* have not returned are a stack of frames, and every call made is logged  *)
(* with the value of its caller and, once it has returned, its outcome.    *)

\* Texts that come to the multi-line block or to the JSON document, and
\* texts that do not.
RecursionSecrets ==
    { <<"[", "\"">> \o Key \o <<"\"", ",", " ", "\"", "abcdefgh", "\"", ",",
        " ", "\"", "abcdefgh", "\"", "]">>,
      <<"{", "\"", "a", "\"", ":", " ", "\"", "abcdefgh", "\"", ",", " ",
        "\"", "b", "\"", ":", " ", "[", "\"", "abcdef", "\"", ",", " ",
        "\"", " ", "abcdefgh", "\"", "]", "}">>,
      <<"[", "\"">> \o SasToken \o <<"\"", ",", "\"">> \o Key
          \o <<"\"", ",", "\"", "abcdefg", "\"", "]">>,
      <<"x", "\n", "[", "\"", "a", ":", " ", "b", "\"", "]">>,
      <<"x", "\n", "[", "\"", "AccountKey", ":", "k1", "\"", "]">>,
      <<"a", ":", "b", "\n", "c", ":", "d">>,
      <<"AccountName", ":", " ", "demo", "\n", "AccountKey", ":", " ", "k1">>,
      <<"Foo", ":", " ", "bar", "\n", "k1">>,
      <<"'", "\"", "abcdefgh", "\"", "'">>,
      <<"'", "\"">> \o Key \o <<"\"", "'">>,
      <<"[", "]">>,
      <<"[", "\"", " ", "\"", ",", " ", "true", "]">>,
      <<"abcdefgh">>,
      Key,
      <<>> }

\* --storage-account
RecursionAccount == <<"acct">>

\* The --credential arguments.
RecursionArguments ==
    { Wrap(w, s) :
        w \in { <<"none">>, <<"array">>, <<"object", "array">> },
        s \in RecursionSecrets }

\* The texts the call on a text calls parse_credential on, whatever the
\* calls return.
Callees(input) ==
    IF reaches_wrapped(unquote(input), replace_cr(unquote(input)))
    THEN ({block_input(replace_cr(unquote(input)))} \ {None})
         \cup {json_candidates(unquote(input))[i] :
                  i \in DOMAIN json_candidates(unquote(input))}
    ELSE {}

\* The arguments and every text a call can be made on.
RECURSIVE WithCallees(_)
WithCallees(texts) ==
    IF UNION {Callees(t) : t \in texts} \subseteq texts THEN texts
    ELSE WithCallees(texts \cup UNION {Callees(t) : t \in texts})

\* What the body of parse_credential computes from its argument, for every
\* text a call is made on: value, whether it comes to the branches that
\* recurse, what it returns when it does not, the argument of the call of
\* the multi-line block, the JSON candidates and the error of the last
\* lines.  It is computed once.
Bodies ==
    [input \in WithCallees(RecursionArguments) |->
        [value |-> unquote(input),
         recurses |-> reaches_wrapped(unquote(input),
                                       replace_cr(unquote(input))),
         plain |-> IF reaches_wrapped(unquote(input),
                                      replace_cr(unquote(input)))
                   THEN NotRun
                   ELSE parse_value(unquote(input),
                                    replace_cr(unquote(input)),
                                    RecursionAccount),
         block |-> block_input(replace_cr(unquote(input))),
         candidates |-> json_candidates(unquote(input)),
         undetected |-> ValueError(undetected_message(
                            replace_cr(unquote(input)))),
         whole |-> parse_credential(input, RecursionAccount),
         rank |-> 2 * CharLen(input)
                  + (IF Contains(input, "\n") THEN 1 ELSE 0),
         value_rank |-> 2 * CharLen(unquote(input))
                  + (IF Contains(unquote(input), "\n") THEN 1 ELSE 0)]]

\* A frame of parse_credential(input, storage_account), at its first line.
Frame(id, input) ==
    [id |-> id, input |-> input, value |-> Bodies[input].value,
     stage |-> "enter", candidates |-> <<>>, seen |-> {}, out |-> NotRun]

\* An entry of the log of calls: the entry of the caller (0 for main), the
\* branch the call was made from, the value of the caller, the argument.
CallOf(caller, via, value, input) ==
    [caller |-> caller, via |-> via, value |-> value, input |-> input,
     out |-> NotRun]

\* The frame at its return statement, or at the raise of its ValueError.
Returning(frame, out) == [frame EXCEPT !.stage = "return", !.out = out]

\* The frame at the head of the loop over the candidates of its value.
AtCandidates(frame) ==
    [frame EXCEPT !.stage = "json",
                  !.candidates = Bodies[frame.input].candidates]

TopFrame == frames[Len(frames)]

\* The stack with its top frame replaced.
WithTop(frame) == [frames EXCEPT ![Len(frames)] = frame]

InitRecursion ==
    /\ pc = "start"
    /\ secret \in RecursionSecrets
    /\ wrapper \in { <<"none">>, <<"array">>, <<"object", "array">> }
    /\ fallback = RecursionAccount
    /\ credential = NotRun
    /\ unwrapped = NotRun
    /\ reparsed = NotRun
    /\ frames = <<>>
    /\ calls = <<>>
    /\ result = Running
    /\ ip_value = None
    /\ HostsIdle /\ ResolveIdle /\ AccessIdle /\ MainIdle /\ ToolIdle

\* main(): parse_credential(args.credential, args.storage_account)
CallParse ==
    /\ pc = "start"
    /\ frames' = <<Frame(1, raw)>>
    /\ calls' = <<CallOf(0, "main", None, raw)>>
    /\ pc' = "running"
    /\ UNCHANGED <<secret, wrapper, fallback, credential, unwrapped, reparsed,
                   result, ip_value, hosts_vars, resolve_vars, access_vars,
                   main_vars, tool_vars>>

\* Lines 48-208 of the call on top: a branch that returns at once, the call
\* on the joined segments of the multi-line block, or on to the JSON
\* document.
EnterParse ==
    /\ pc = "running"
    /\ TopFrame.stage = "enter"
    /\ IF ~Bodies[TopFrame.input].recurses
       THEN /\ frames' = WithTop(Returning(TopFrame,
                                           Bodies[TopFrame.input].plain))
            /\ UNCHANGED calls
       ELSE IF Bodies[TopFrame.input].block # None
       THEN /\ frames' = Append(WithTop([TopFrame EXCEPT !.stage = "block"]),
                                Frame(Len(calls) + 1,
                                      Bodies[TopFrame.input].block))
            /\ calls' = Append(calls,
                            CallOf(TopFrame.id, "block", TopFrame.value,
                                   Bodies[TopFrame.input].block))
       ELSE /\ frames' = WithTop(AtCandidates(TopFrame))
            /\ UNCHANGED calls
    /\ UNCHANGED <<pc, secret, wrapper, fallback, credential, unwrapped,
                   reparsed, result, ip_value, hosts_vars, resolve_vars,
                   access_vars, main_vars, tool_vars>>

\* Lines 230-247 of the call on top: one turn of the loop over the
\* candidates, or the ValueError after it.
NextCandidate ==
    /\ pc = "running"
    /\ TopFrame.stage = "json"
    /\ IF TopFrame.candidates = <<>>
       THEN /\ frames' = WithTop(Returning(TopFrame,
                                Bodies[TopFrame.input].undetected))
            /\ UNCHANGED calls
       ELSE IF skip_candidate(TopFrame.candidates[1], TopFrame.value,
                              TopFrame.seen)
       THEN /\ frames' = WithTop([TopFrame EXCEPT
                             !.candidates = Tail(TopFrame.candidates)])
            /\ UNCHANGED calls
       ELSE /\ frames' = Append(
                  WithTop([TopFrame EXCEPT
                      !.candidates = Tail(TopFrame.candidates),
                      !.seen = TopFrame.seen \cup {TopFrame.candidates[1]}]),
                  Frame(Len(calls) + 1, TopFrame.candidates[1]))
            /\ calls' = Append(calls,
                            CallOf(TopFrame.id, "json", TopFrame.value,
                                   TopFrame.candidates[1]))
    /\ UNCHANGED <<pc, secret, wrapper, fallback, credential, unwrapped,
                   reparsed, result, ip_value, hosts_vars, resolve_vars,
                   access_vars, main_vars, tool_vars>>

\* The caller after the call on top has ended: `return parse_credential(...)`
\* returns what was returned; `except ValueError` goes on, from the block
\* to the JSON document and from a candidate to the next.
Resumed(caller, out) ==
    IF out.error = None THEN Returning(caller, out)
    ELSE IF caller.stage = "block" THEN AtCandidates(caller)
    ELSE caller

\* The call on top ends.
ReturnParse ==
    /\ pc = "running"
    /\ TopFrame.stage = "return"
    /\ calls' = [calls EXCEPT ![TopFrame.id].out = TopFrame.out]
    /\ IF Len(frames) = 1
       THEN /\ frames' = <<>>
            /\ credential' = TopFrame.out
            /\ pc' = "parsed"
       ELSE /\ frames' = Append(SubSeq(frames, 1, Len(frames) - 2),
                                Resumed(frames[Len(frames) - 1], TopFrame.out))
            /\ UNCHANGED <<credential, pc>>
    /\ UNCHANGED <<secret, wrapper, fallback, unwrapped, reparsed, result,
                   ip_value, hosts_vars, resolve_vars, access_vars,
                   main_vars, tool_vars>>

NextRecursion == CallParse \/ EnterParse \/ NextCandidate \/ ReturnParse

\* The interpreter keeps running the one thread of the script.
SpecRecursion ==
    InitRecursion /\ [][NextRecursion]_vars /\ WF_vars(NextRecursion)

----------------------------------------------------------------------------
(* Claims about the recursion of parse_credential.                         *)

\* What a call lowers: twice the number of characters of the text, and one
\* more when the text has a line break.
TextRank(text) == Bodies[text].rank

\* The calls made from the loop over the candidates of the call k.
CandidateCalls(k) ==
    {i \in DOMAIN calls : calls[i].caller = k /\ calls[i].via = "json"}

\* The calls made so far.
RecursionDescends ==
    \* a recursive call is made on a text of lower rank than the value of
    \* its caller, which is of no higher rank than the argument of its caller
    /\ \A i \in DOMAIN calls :
           calls[i].caller # 0 =>
               /\ TextRank(calls[i].input)
                      < Bodies[calls[calls[i].caller].input].value_rank
               /\ Bodies[calls[calls[i].caller].input].value_rank
                      <= TextRank(calls[calls[i].caller].input)
               /\ calls[i].value = Bodies[calls[calls[i].caller].input].value
    \* so the depth is bounded by the rank of the argument of main
    /\ (frames # <<>>) => Len(frames) <= TextRank(raw) + 1
    /\ \A k \in DOMAIN calls :
           \* no candidate equal to the value is tried, and none twice
           /\ \A i \in CandidateCalls(k) : calls[i].input # calls[i].value
           /\ \A i, j \in CandidateCalls(k) :
                  i < j =>
                      /\ calls[i].input # calls[j].input
                      \* a later candidate is tried after a ValueError only
                      /\ calls[i].out.error # None
           \* the first candidate that parses is returned
           /\ \A i \in CandidateCalls(k) :
                  (calls[i].out # NotRun /\ calls[i].out.error = None) =>
                      \/ calls[k].out = calls[i].out
                      \/ /\ calls[k].out = NotRun
                         /\ \E f \in DOMAIN frames :
                                /\ frames[f].id = k
                                /\ frames[f].out = calls[i].out
    \* the calls give what the function gives
    /\ (pc = "parsed") => credential = Bodies[raw].whole

RecursionEnded == pc = "parsed" /\ frames = <<>>

\* C26: parse_credential ends on every input: a recursive call, on a string
\* of a JSON document or on the joined segments of a multi-line block, is
\* made on a text of lower rank, so the depth of the recursion is bounded;
\* the loop over the JSON candidates passes over a candidate equal to the
\* value, tries a distinct candidate once at most, and returns the first
\* that parses.
C26_RecursionEnds == [](RecursionDescends) /\ <>(RecursionEnded)

\* A JSON document with a repeated candidate: the candidate was tried once
\* and failed, and a later candidate parsed and was returned.
C26_Witness ==
    /\ pc = "parsed"
    /\ credential.error = None
    /\ \E i, j \in CandidateCalls(1) :
           /\ i < j
           /\ calls[i].out.error # None
           /\ calls[j].out = credential
    /\ Len(Bodies[raw].candidates) > Cardinality(CandidateCalls(1))

----------------------------------------------------------------------------
(* main() of ensure_ingress_load_balancer.py as a state machine.  The      *)
(* cluster holds the service; kubectl get prints it, a kubectl patch that  *)
(* exits 0 has changed it.  How each process ends is chosen when it is     *)
(* run.                                                                    *)

NodeGroup == <<"MC_rg_aks_westeurope">>

LiveServices ==
    { ServiceDocument(type, annotation) :
          type \in { None, <<"ClusterIP">>, <<"LoadBalancer">> },
          annotation \in { None, NodeGroup, <<"MC_old">> } }

\* az fails, prints nothing, or prints the answer.
AzProcs(answer) ==
    { [returncode |-> 1, stdout |-> <<>>, stderr |-> <<"denied", "\n">>],
      [returncode |-> 0, stdout |-> <<>>, stderr |-> <<>>],
      [returncode |-> 0, stdout |-> answer, stderr |-> <<>>] }

\* The four az processes of the diagnostics.
DiagnosticsProcs ==
    [1..4 -> { [returncode |-> 1, stdout |-> <<>>,
                stderr |-> <<"denied", "\n">>],
               [returncode |-> 0, stdout |-> <<"Name", "\n">>,
                stderr |-> <<>>] }]

\* kubectl get fails or prints the service.
GetProcs ==
    { [returncode |-> 1, stdout |-> <<>>, stderr |-> <<"not found", "\n">>],
      [returncode |-> 0, stdout |-> live, stderr |-> <<>>] }

\* kubectl patch fails or succeeds.
PatchProcs ==
    { [returncode |-> 1, stdout |-> <<>>, stderr |-> <<"forbidden", "\n">>],
      [returncode |-> 0, stdout |-> <<"patched", "\n">>, stderr |-> <<>>] }

\* namespace, name of the service
ServiceNames == _parse_service(service).value

InitEnsure ==
    /\ pc = "start"
    /\ result = Running
    /\ ip_value = None
    /\ service \in { DefaultService, <<"iam", "/", "service", "/", "web">>,
                     <<"solo">> }
    /\ commands = <<>>
    /\ timeout \in {0, 2}
    /\ interval = 1
    /\ clock = 0
    /\ deadline = 0
    /\ polls = <<>>
    /\ sleeps = <<>>
    /\ resource_group \in { None, <<"rg">> }
    /\ aks_name \in { None, <<>>, <<"aks">> }
    /\ node_rg = None
    /\ live \in LiveServices
    /\ fetched = None
    /\ patched = FALSE
    /\ CredentialIdle /\ HostsIdle /\ ResolveIdle /\ AccessIdle /\ MainIdle

\* namespace, name = _parse_service(options.service)
EnsureParse ==
    /\ pc = "start"
    /\ IF _parse_service(service).kind = "raise"
       THEN result' = _parse_service(service) /\ pc' = "failed"
       ELSE UNCHANGED result /\ pc' = "discover"
    /\ UNCHANGED <<ip_value, service, commands, wait_vars, ensure_vars,
                   credential_vars, hosts_vars, resolve_vars, access_vars,
                   main_vars>>

\* node_rg = _discover_node_resource_group(options.resource_group or "",
\*                                         options.aks_name or "")
EnsureDiscover ==
    /\ pc = "discover"
    /\ IF discovers(resource_group, aks_name)
       THEN \E proc \in AzProcs(NodeGroup \o <<"\n">>) :
                /\ commands' = Append(commands,
                       Ran("_run_az", discover_cmd(resource_group, aks_name),
                           proc))
                /\ node_rg' = discovered(
                       _run_az(Tail(discover_cmd(resource_group, aks_name)),
                               proc))
       ELSE node_rg' = None /\ UNCHANGED commands
    /\ pc' = "fetch"
    /\ UNCHANGED <<result, ip_value, service, wait_vars, resource_group,
                   aks_name, live, fetched, patched, credential_vars,
                   hosts_vars, resolve_vars, access_vars, main_vars>>

\* service = _kubectl_json(namespace, name): the first fetch, the fetch
\* after the type patch and the fetch `if patched`
EnsureFetch ==
    /\ pc \in {"fetch", "fetch_patched_type", "fetch_patched"}
    /\ \E proc \in GetProcs :
           /\ commands' = Append(commands,
                  Ran("_kubectl_json",
                      kubectl_json_cmd(ServiceNames[1], ServiceNames[2]),
                      proc))
           /\ IF _kubectl_json(proc).kind = "raise"
              THEN /\ result' = _kubectl_json(proc)
                   /\ pc' = "failed"
                   /\ UNCHANGED fetched
              ELSE /\ fetched' = _kubectl_json(proc).value
                   /\ pc' = (IF pc = "fetch" THEN "type"
                             ELSE IF pc = "fetch_patched_type"
                             THEN "annotation"
                             ELSE "wait")
                   /\ UNCHANGED result
    /\ UNCHANGED <<ip_value, service, wait_vars, resource_group, aks_name,
                   node_rg, live, patched, credential_vars, hosts_vars,
                   resolve_vars, access_vars, main_vars>>

\* if _ensure_service_type(service, namespace, name): patched = True
EnsureServiceType ==
    /\ pc = "type"
    /\ IF needs_type_patch(fetched)
       THEN \E proc \in PatchProcs :
                \E cmd \in {patch_cmd(ServiceNames[1], ServiceNames[2],
                                      type_patch)} :
                    /\ commands' = Append(commands,
                                          Ran("_patch_service", cmd, proc))
                    /\ IF _patch_service(cmd, proc).kind = "raise"
                       THEN /\ result' = _patch_service(cmd, proc)
                            /\ pc' = "failed"
                            /\ UNCHANGED <<live, patched>>
                       ELSE /\ live' = patched_service(live, type_patch)
                            /\ patched' = TRUE
                            /\ pc' = "fetch_patched_type"
                            /\ UNCHANGED result
       ELSE /\ pc' = "annotation"
            /\ UNCHANGED <<commands, result, live, patched>>
    /\ UNCHANGED <<ip_value, service, wait_vars, resource_group, aks_name,
                   node_rg, fetched, credential_vars, hosts_vars,
                   resolve_vars, access_vars, main_vars>>

\* if node_rg: if _ensure_annotation(...): patched = True; and the test
\* `if patched`
EnsureAnnotation ==
    /\ pc = "annotation"
    /\ IF Truthy(node_rg) /\ needs_annotation_patch(fetched, node_rg)
       THEN \E proc \in PatchProcs :
                \E cmd \in {patch_cmd(ServiceNames[1], ServiceNames[2],
                                      annotation_patch(node_rg))} :
                    /\ commands' = Append(commands,
                                          Ran("_patch_service", cmd, proc))
                    /\ IF _patch_service(cmd, proc).kind = "raise"
                       THEN /\ result' = _patch_service(cmd, proc)
                            /\ pc' = "failed"
                            /\ UNCHANGED <<live, patched>>
                       ELSE /\ live' = patched_service(live,
                                           annotation_patch(node_rg))
                            /\ patched' = TRUE
                            /\ pc' = "fetch_patched"
                            /\ UNCHANGED result
       ELSE /\ pc' = (IF patched THEN "fetch_patched" ELSE "wait")
            /\ UNCHANGED <<commands, result, live, patched>>
    /\ UNCHANGED <<ip_value, service, wait_vars, resource_group, aks_name,
                   node_rg, fetched, credential_vars, hosts_vars,
                   resolve_vars, access_vars, main_vars>>

\* The log after the four az calls of _emit_azure_diagnostics.
RECURSIVE with_diagnostics(_, _, _)
with_diagnostics(log, cmds, procs) ==
    IF cmds = <<>> THEN log
    ELSE with_diagnostics(Append(log, Ran("_run_az", cmds[1], procs[1])),
                          Tail(cmds), Tail(procs))

\* After the wait: `if node_rg: _emit_azure_diagnostics(node_rg)`, then
\* `return 0`, or `raise` in the handler of the RuntimeError.
EnsureDiagnostics ==
    /\ pc \in {"waited", "timed_out"}
    /\ IF Truthy(node_rg)
       THEN \E procs \in DiagnosticsProcs :
                commands' = with_diagnostics(commands,
                                             diagnostics_cmds(node_rg), procs)
       ELSE UNCHANGED commands
    /\ IF pc = "waited"
       THEN result' = Return(0) /\ pc' = "done"
       ELSE UNCHANGED result /\ pc' = "failed"
    /\ UNCHANGED <<ip_value, service, wait_vars, ensure_vars,
                   credential_vars, hosts_vars, resolve_vars, access_vars,
                   main_vars>>

NextEnsure ==
    \/ EnsureParse
    \/ EnsureDiscover
    \/ EnsureFetch
    \/ EnsureServiceType
    \/ EnsureAnnotation
    \/ WaitStart
    \/ WaitTest
    \/ PollIp
    \/ PollHostname
    \/ WaitSleep
    \/ EnsureDiagnostics

SpecEnsure == InitEnsure /\ [][NextEnsure]_vars

----------------------------------------------------------------------------
(* Claims about main() of ensure_ingress_load_balancer.py.                 *)

\* The places in the log of the commands a function ran.
RanBy(by) == {i \in DOMAIN commands : commands[i].by = by}

PatchesAt == RanBy("_patch_service")

IsTypePatch(i) == commands[i].cmd[Len(commands[i].cmd)] = type_patch

\* The fetches before the command at i that printed the service.
FetchesBefore(i) ==
    {j \in RanBy("_kubectl_json") : j < i /\ commands[j].proc.returncode = 0}

\* The document main() held when it ran the command at i.
SeenAt(i) ==
    commands[CHOOSE j \in FetchesBefore(i) :
                 \A k \in FetchesBefore(i) : k <= j].proc.stdout

\* az aks show gave the node resource group.
Discovered(group) ==
    \E i \in RanBy("_run_az") :
        /\ commands[i].cmd[2] = <<"aks">>
        /\ commands[i].proc.returncode = 0
        /\ strip(commands[i].proc.stdout, Whitespace) = group

DiagnosticsAt ==
    {i \in RanBy("_run_az") : commands[i].cmd[2] = <<"network">>}

\* The service was as wanted when it was first fetched.
AlreadyConfigured ==
    /\ FetchesBefore(Len(commands) + 1) # {}
    /\ \E j \in FetchesBefore(Len(commands) + 1) :
           /\ \A k \in FetchesBefore(Len(commands) + 1) : j <= k
           /\ commands[j].proc.stdout.type = <<"LoadBalancer">>
           /\ \/ ~Truthy(node_rg)
              \/ commands[j].proc.stdout.annotation = node_rg

\* The last four commands are the diagnostics of the group.
EndsWithDiagnostics(group) ==
    /\ Len(commands) >= 4
    /\ \A k \in 1..4 :
           /\ commands[Len(commands) - 4 + k].by = "_run_az"
           /\ commands[Len(commands) - 4 + k].cmd = diagnostics_cmds(group)[k]
    /\ \A i \in RanBy("run_kubectl_jsonpath") : i <= Len(commands) - 4

\* C30: main() issues the type patch only if spec.type is not LoadBalancer
\* and the annotation patch only if a node resource group was discovered
\* and the annotation differs from it, the type patch before the
\* annotation patch, and polls for the load balancer only after all
\* patches; a service that has the type and the annotation is not patched;
\* no failure of az ends the run; after a timed-out wait the diagnostics
\* are run, when the node resource group is known, before the RuntimeError
\* is raised again.
C30_PatchesInOrder ==
    /\ \A i \in PatchesAt :
           /\ FetchesBefore(i) # {}
           /\ IF IsTypePatch(i)
              THEN SeenAt(i).type # <<"LoadBalancer">>
              ELSE /\ Truthy(node_rg)
                   /\ Discovered(node_rg)
                   /\ SeenAt(i).annotation # node_rg
                   /\ commands[i].cmd[Len(commands[i].cmd)]
                          = annotation_patch(node_rg)
    /\ \A i, j \in PatchesAt :
           i < j => (IsTypePatch(i) /\ ~IsTypePatch(j))
    /\ \A i \in PatchesAt :
           \A p \in RanBy("run_kubectl_jsonpath") : i < p
    /\ (pc \in {"wait", "test", "poll_ip", "poll_hostname", "sleep",
                "waited", "timed_out", "done"}) =>
           /\ fetched.type = <<"LoadBalancer">>
           /\ Truthy(node_rg) => fetched.annotation = node_rg
    /\ AlreadyConfigured => PatchesAt = {}
    /\ (result.kind = "raise") => result.type # "AzureCliError"
    /\ (pc = "failed") =>
           \/ result.type = "ValueError" /\ commands = <<>>
           \/ result = timed_out
           \/ /\ LastCommand.by \in {"_kubectl_json", "_patch_service"}
              /\ LastCommand.proc.returncode # 0
              /\ result.kind = "raise"
    /\ (pc = "failed" /\ result = timed_out) =>
           IF Truthy(node_rg) THEN EndsWithDiagnostics(node_rg)
           ELSE DiagnosticsAt = {}
    /\ (pc = "timed_out") => DiagnosticsAt = {}

\* Both patches were issued, the discovery had given the group, the wait
\* polled and timed out, and one az call of the diagnostics failed.
C30_Witness ==
    /\ pc = "failed"
    /\ result = timed_out
    /\ Cardinality(PatchesAt) = 2
    /\ polls # <<>>
    /\ \E i \in DiagnosticsAt : commands[i].proc.returncode # 0
    /\ \E i \in DiagnosticsAt : commands[i].proc.returncode = 0

=============================================================================
